---- MODULE Spec2Model ----
(***************************************************************************)
(* Behaviour processing of cuckoo-modified                                 *)
(* (modules/processing/behavior.py): the per-process call-stream           *)
(* reconstructor ParseProcessLog, the listeners and the orchestrator       *)
(* BehaviorAnalysis.run, as state machines.                                *)
(***************************************************************************)
EXTENDS Integers, Sequences, FiniteSets, TLC

\* ------------------------------------------------------------------ bounds
\* longest stream body over the full event alphabet
MaxLen == 2
\* longest stream body over the two-letter alphabet {A, B}
MaxFold == 4
\* largest analysis_call_limit tried (0 = unlimited)
MaxLimit == 2
\* completed passes a consumer of one reconstructor makes
MaxPasses == 2
\* process ids shown to a ProcessTree
MaxPid == 3
\* calls of ProcessTree.run
MaxRuns == 2
\* events in the log of the first process of an orchestration run
MaxRunLen == 2
\* events in the log of its second process
MaxSecond == 1
\* the per-file size ceiling of the runs
SizeLimit == 8
\* the calls dispatched to a listener driven on its own
MaxHeard == 3
\* the next() calls of a consumer within one pass
MaxRead == 6
\* the entries of a logs folder read by a Process Collector on its own
MaxEntries == 3
\* a per-file size ceiling below the size of the longest logs
SmallLimit == 2

\* ------------------------------------------------------------ Python values
\* Python's None, where the other values are records or strings
None == [isNone |-> TRUE]
\* None for the integer-valued attributes (process_id, first_seen, ...)
NoInt == -1
\* None where a string may stand: a text that no value of the streams equals
NoStr == "<None>"

Digits == <<"0", "1", "2", "3", "4", "5", "6", "7", "8", "9">>

\* str(n) of a small non-negative int
Str(n) ==
    IF n < 10 THEN Digits[n + 1]
    ELSE IF n < 100 THEN Digits[(n \div 10) + 1] \o Digits[(n % 10) + 1]
    ELSE Digits[(n \div 100) + 1] \o Digits[((n \div 10) % 10) + 1]
            \o Digits[(n % 10) + 1]

HexDigits == Digits \o <<"a", "b", "c", "d", "e", "f">>

\* "%x" % n of a small non-negative int
HexStr(n) ==
    IF n < 16 THEN HexDigits[n + 1]
    ELSE HexDigits[(n \div 16) + 1] \o HexDigits[(n % 16) + 1]

\* "0x%.08x" % n of a small non-negative int
Hex8(n) == IF n < 16 THEN "0x0000000" \o HexStr(n) ELSE "0x000000" \o HexStr(n)

\* a raw value as the decoder delivers it: an int or a byte string
IntRaw(n) == [t |-> "int", v |-> Str(n)]
StrRaw(s) == [t |-> "str", v |-> s]

\* str(x) of a raw value
PyStr(raw) == raw.v

\* the int behind an int raw value
IntOf(raw) == CHOOSE n \in 0..255 : Str(n) = raw.v

\* convert_to_printable: non-printable bytes are escaped, so the one-byte
\* string NUL and the four-character string \x00 have the same printable form
ConvertToPrintable(s) == IF s = "<NUL>" THEN "\\x00" ELSE s

\* pretty_print_arg: an optional annotation for (category, api, argument, value)
PrettyPrintArg(category, api_name, arg_name, value) ==
    IF arg_name = "Disposition" /\ value = "1" THEN "REG_CREATED_NEW_KEY" ELSE ""

\* pretty_print_retval: an optional annotation for (category, api, status, return)
PrettyPrintRetval(category, api_name, status, retval) ==
    IF ~status /\ retval = "0x00000002" THEN "FILE_NOT_FOUND" ELSE ""

\* the members of a sequence
Range(f) == {f[i] : i \in DOMAIN f}

\* a dict with one more key
WithKey(d, k, v) == [x \in (DOMAIN d) \cup {k} |-> IF x = k THEN v ELSE d[x]]
\* del d[k]
DelKey(d, k) == [x \in (DOMAIN d) \ {k} |-> d[x]]

\* ------------------------------------------------------------ decode events
ProcessEv(time, pid, ppid, path, name) ==
    [type |-> "process", time |-> time, pid |-> pid, ppid |-> ppid,
     path |-> path, name |-> name]

CallEv(api, category, repeated, status, ret, tid, timediff, caller, args) ==
    [type |-> "call", api |-> api, category |-> category, repeated |-> repeated,
     status |-> status, ret |-> ret, tid |-> tid, timediff |-> timediff,
     caller |-> caller, parentcaller |-> caller, args |-> args]

AnomalyEv(subcategory, tid, funcname, msg) ==
    [type |-> "anomaly", subcategory |-> subcategory, tid |-> tid,
     funcname |-> funcname, msg |-> msg]

\* ------------------------------------------------- ParseProcessLog (state)
\* A reconstructor is a record of the attributes of ParseProcessLog; the log
\* file it owns is part of it (exists, size, suffix, events, tail), and the
\* file object fd is fd_open with its position fd_pos.

\* a log file: its directory entry and the decode events its bytes hold; tail
\* says how the decoder's read ends after the last event: "clean" (returns
\* false) or "truncated" (raises EOFError)
LogFile(suffix, events, tail) ==
    [exists |-> TRUE, size |-> Len(events), suffix |-> suffix,
     events |-> events, tail |-> tail]

\* configuration read at construction
Config(api_limit, ram_boost) == [api_limit |-> api_limit, ram_boost |-> ram_boost]

\* __init__, the attribute assignments before any parsing
NewLog(file, cfg) ==
    [exists |-> file.exists, size |-> file.size, suffix |-> file.suffix,
     events |-> file.events, tail |-> file.tail,
     fd_open |-> FALSE, fd_pos |-> 0, parser |-> "None",
     reporting_mode |-> FALSE,
     process_id |-> NoInt, process_name |-> "", parent_id |-> NoInt,
     module_path |-> "", threads |-> <<>>, first_seen |-> NoInt,
     lastcall |-> None, api_count |-> 0, call_id |-> 0,
     api_limit |-> cfg.api_limit, ram_boost |-> cfg.ram_boost,
     api_call_cache |-> <<>>, api_pointer |-> 0]

\* Python truth of an integer attribute that may be None
Truthy(n) == n # NoInt /\ n # 0

\* ------------------------------------------ ParseProcessLog (decode callbacks)
\* log_process
LogProcess(r, ev) ==
    [r EXCEPT !.process_id = ev.pid, !.parent_id = ev.ppid,
              !.process_name = ev.name, !.module_path = ev.path,
              !.first_seen = ev.time]

\* log_anomaly: the pending record of an anomaly
AnomalyRecord(ev) ==
    [thread_id |-> ev.tid, category |-> "anomaly", api |-> "",
     subcategory |-> ev.subcategory, funcname |-> ev.funcname, msg |-> ev.msg]

LogAnomaly(r, ev) == [r EXCEPT !.lastcall = AnomalyRecord(ev)]

\* _parse, one argument once its value is converted and annotated
ParsedArgument(reporting_mode, col, value, pretty) ==
    [x \in {"name", "value"}
           \cup (IF reporting_mode THEN {} ELSE {"raw_value"})
           \cup (IF pretty # "" THEN {"pretty_value"} ELSE {}) |->
        CASE x = "name" -> col.name
          [] x = "value" -> value
          [] x = "raw_value" -> col.raw
          [] x = "pretty_value" -> pretty]

\* _parse, the annotation of one argument
AnnotatedArgument(reporting_mode, category, api_name, col, value) ==
    ParsedArgument(reporting_mode, col, value,
                   PrettyPrintArg(category, api_name, col.name, value))

\* _parse, one argument column (it destructures into name and value)
ParseArgument(reporting_mode, category, api_name, col) ==
    AnnotatedArgument(reporting_mode, category, api_name, col,
                      ConvertToPrintable(PyStr(col.raw)))

\* _parse, the argument columns: one that does not destructure is skipped
RECURSIVE ParseArguments(_, _, _, _)
ParseArguments(reporting_mode, category, api_name, cols) ==
    IF cols = <<>> THEN <<>>
    ELSE LET rest == ParseArguments(reporting_mode, category, api_name, Tail(cols))
         IN IF "name" \in DOMAIN Head(cols)
            THEN <<ParseArgument(reporting_mode, category, api_name, Head(cols))>> \o rest
            ELSE rest

\* _parse, the return value: hex if numeric, else printable
ParseReturn(ret) ==
    IF ret.t = "int" THEN Hex8(IntOf(ret)) ELSE ConvertToPrintable(PyStr(ret))

\* _parse, the optional pretty_return of a parsed call
WithPrettyReturn(c0, prettyret) ==
    IF prettyret # "" THEN WithKey(c0, "pretty_return", prettyret) ELSE c0

\* _parse, the call record once status and return value are converted
ParsedCall(r, ev, status, retval) ==
    WithPrettyReturn(
        [timestamp |-> r.first_seen + ev.timediff,
         thread_id |-> Str(ev.tid),
         caller |-> Hex8(ev.caller),
         parentcaller |-> Hex8(ev.parentcaller),
         category |-> ev.category,
         api |-> ev.api,
         status |-> status,
         return |-> retval,
         arguments |-> ParseArguments(r.reporting_mode, ev.category, ev.api, ev.args),
         repeated |-> ev.repeated],
        PrettyPrintRetval(ev.category, ev.api, status, retval))

\* _parse, with the timestamp log_call computes
Parse(r, ev) == ParsedCall(r, ev, ev.status # 0, ParseReturn(ev.ret))

\* the thread set after _parse
AddThread(threads, tid) ==
    IF \E i \in 1..Len(threads) : threads[i] = tid THEN threads ELSE Append(threads, tid)

\* log_call
LogCall(r, ev) ==
    [r EXCEPT !.lastcall = Parse(r, ev),
              !.threads = AddThread(r.threads, Str(ev.tid))]

\* the decoder delivers event ev, read by r1, to its callback
Deliver(r1, ev) ==
    CASE ev.type = "process" -> [r |-> LogProcess(r1, ev), ret |-> "True"]
      [] ev.type = "anomaly" -> [r |-> LogAnomaly(r1, ev), ret |-> "True"]
      [] ev.type = "call" ->
            IF r1.first_seen = NoInt
            THEN [r |-> r1, ret |-> "TypeError"]
            ELSE [r |-> LogCall(r1, ev), ret |-> "True"]

\* the decoder's single-step read: one event is read at the file position and
\* delivered to its callback.  ret is the value returned ("True", "False") or
\* the exception raised
ReadNextMessage(r) ==
    IF r.fd_pos >= Len(r.events)
    THEN [r |-> r, ret |-> IF r.tail = "clean" THEN "False" ELSE "EOFError"]
    ELSE Deliver([r EXCEPT !.fd_pos = @ + 1], r.events[r.fd_pos + 1])

\* ------------------------------------------------ ParseProcessLog (reading)
\* reset that leaves the sequence id running
Reset_KeepsCallId(r) ==
    IF ~r.fd_open
    THEN [r |-> r, ret |-> "AttributeError"]
    ELSE [r |-> [r EXCEPT !.fd_pos = 0, !.api_count = 0, !.lastcall = None,
                          !.api_pointer = 0],
          ret |-> "None"]

\* reset that leaves the running call count
Reset_KeepsCount(r) ==
    IF ~r.fd_open
    THEN [r |-> r, ret |-> "AttributeError"]
    ELSE [r |-> [r EXCEPT !.fd_pos = 0, !.lastcall = None, !.call_id = 0,
                          !.api_pointer = 0],
          ret |-> "None"]

\* reset; ret is "None" or the exception raised
Reset(r) ==
    IF ~r.fd_open
    THEN [r |-> r, ret |-> "AttributeError"]
    ELSE [r |-> [r EXCEPT !.fd_pos = 0, !.api_count = 0, !.lastcall = None,
                          !.call_id = 0, !.api_pointer = 0],
          ret |-> "None"]

\* compare_calls that leaves the success flag out
CompareCalls_NoStatus(a, b) ==
    IF a.api # b.api THEN "False"
    ELSE IF "arguments" \notin DOMAIN a \/ "arguments" \notin DOMAIN b THEN "KeyError"
    ELSE IF a.arguments # b.arguments THEN "False"
    ELSE IF "return" \notin DOMAIN a \/ "return" \notin DOMAIN b THEN "KeyError"
    ELSE IF a.return # b.return THEN "False"
    ELSE "True"

\* compare_calls: "True", "False", or "KeyError" when a key read is missing
CompareCalls(a, b) ==
    IF a.api # b.api THEN "False"
    ELSE IF "status" \notin DOMAIN a \/ "status" \notin DOMAIN b THEN "KeyError"
    ELSE IF a.status # b.status THEN "False"
    ELSE IF "arguments" \notin DOMAIN a \/ "arguments" \notin DOMAIN b THEN "KeyError"
    ELSE IF a.arguments # b.arguments THEN "False"
    ELSE IF "return" \notin DOMAIN a \/ "return" \notin DOMAIN b THEN "KeyError"
    ELSE IF a.return # b.return THEN "False"
    ELSE "True"

RECURSIVE WaitForLastcall(_)
\* wait_for_lastcall, after one read m of the decoder
AfterRead(m) ==
    CASE m.ret = "True" -> WaitForLastcall(m.r)
      [] m.ret \in {"False", "EOFError"} -> [r |-> m.r, ret |-> "False"]
      [] OTHER -> [r |-> m.r, ret |-> m.ret]

\* wait_for_lastcall: ret is "True", "False" or the exception that escapes
WaitForLastcall(r) ==
    IF r.lastcall # None THEN [r |-> r, ret |-> "True"]
    ELSE AfterRead(ReadNextMessage(r))

\* a merge that forgets the one occurrence the absorbed record stands for
Merge_NoPlusOne(nextcall, lastcall) ==
    [nextcall EXCEPT !.repeated = @ + lastcall.repeated]

\* a merge that counts one per absorbed record
Merge_PlainIncrement(nextcall, lastcall) ==
    [nextcall EXCEPT !.repeated = @ + 1]

\* a merge that drops the absorbed record without counting it
Merge_KeepsFirst(nextcall, lastcall) == nextcall

\* the record that absorbs a duplicate
Merge(nextcall, lastcall) ==
    [nextcall EXCEPT !.repeated = @ + lastcall.repeated + 1]

RECURSIVE FoldLoop(_, _)
\* cacheless_next, the fold once the next look ahead w is done
AfterMerge(w, n2) ==
    IF w.ret \in {"True", "False"}
    THEN FoldLoop(w.r, n2)
    ELSE [r |-> w.r, nextcall |-> n2, exc |-> w.ret]

\* cacheless_next, the fold on the outcome c of compare_calls
Folded(r, nextcall, c) ==
    CASE c = "KeyError" -> [r |-> r, nextcall |-> nextcall, exc |-> "KeyError"]
      [] c = "False" -> [r |-> r, nextcall |-> nextcall, exc |-> "None"]
      [] c = "True" ->
            AfterMerge(WaitForLastcall([r EXCEPT !.lastcall = None]),
                       Merge(nextcall, r.lastcall))

\* cacheless_next, the duplicate fold after the first look ahead; exc is
\* "None" or the exception that escapes
FoldLoop(r, nextcall) ==
    IF r.lastcall = None THEN [r |-> r, nextcall |-> nextcall, exc |-> "None"]
    ELSE Folded(r, nextcall, CompareCalls(nextcall, r.lastcall))

\* a ceiling check that stops one record early
OverLimit_OffByOne(api_limit, api_count) == api_limit # 0 /\ api_count >= api_limit

\* whether the running count is over the ceiling
OverLimit(api_limit, api_count) == api_limit # 0 /\ api_count > api_limit

\* cacheless_next, the sequence id given to the folded record
Numbered(f) ==
    IF f.exc # "None"
    THEN [r |-> f.r, ret |-> f.exc, val |-> None]
    ELSE [r |-> [f.r EXCEPT !.call_id = @ + 1],
          ret |-> "return",
          val |-> WithKey(f.nextcall, "id", f.r.call_id)]

\* cacheless_next, from the first look ahead w2 on
LookAhead(nextcall, w2) ==
    IF w2.ret \notin {"True", "False"}
    THEN [r |-> w2.r, ret |-> w2.ret, val |-> None]
    ELSE Numbered(FoldLoop(w2.r, nextcall))

\* cacheless_next, the ceiling check on the incremented count
Counted(r1) ==
    IF OverLimit(r1.api_limit, r1.api_count)
    THEN [r |-> Reset(r1).r, ret |-> "StopIteration", val |-> None]
    ELSE LookAhead(r1.lastcall, WaitForLastcall([r1 EXCEPT !.lastcall = None]))

\* cacheless_next that signals the end of the stream without the reset
Awaited_NoReset(w) ==
    IF w.ret = "False"
    THEN [r |-> w.r, ret |-> "StopIteration", val |-> None]
    ELSE IF w.ret # "True" THEN [r |-> w.r, ret |-> w.ret, val |-> None]
    ELSE Counted([w.r EXCEPT !.api_count = @ + 1])

\* cacheless_next, once wait_for_lastcall has answered w
Awaited(w) ==
    IF w.ret = "False"
    THEN [r |-> Reset(w.r).r, ret |-> "StopIteration", val |-> None]
    ELSE IF w.ret # "True" THEN [r |-> w.r, ret |-> w.ret, val |-> None]
    ELSE Counted([w.r EXCEPT !.api_count = @ + 1])

\* cacheless_next: ret is "return" (val is the record), "StopIteration", or
\* the exception that escapes
CachelessNext(r) ==
    IF ~r.fd_open THEN [r |-> r, ret |-> "StopIteration", val |-> None]
    ELSE Awaited(WaitForLastcall(r))

\* next, the reset at the sentinel
AtSentinel(z) ==
    IF z.ret = "None"
    THEN [r |-> z.r, ret |-> "StopIteration", val |-> None]
    ELSE [r |-> z.r, ret |-> z.ret, val |-> None]

\* next, the cache entry res at the cursor
Cached(r, res) ==
    IF res = None THEN AtSentinel(Reset(r))
    ELSE [r |-> [r EXCEPT !.api_pointer = @ + 1], ret |-> "return", val |-> res]

\* next
next(r) ==
    IF r.ram_boost THEN Cached(r, r.api_call_cache[r.api_pointer + 1])
    ELSE CachelessNext(r)

\* -------------------------------------------- ParseProcessLog (construction)
RECURSIVE Discover(_)
\* parse_first_and_reset, the loop after one read m of the decoder
Discovered(m) ==
    CASE m.ret = "True" -> Discover(m.r)
      [] m.ret = "False" -> [r |-> m.r, exc |-> "hang"]
      [] OTHER -> [r |-> m.r, exc |-> m.ret]

\* parse_first_and_reset, the identity-discovery loop; exc is "None", the
\* exception that escapes, or "hang" when the loop cannot end (the read keeps
\* returning false and no identity was delivered)
Discover(r) ==
    IF Truthy(r.process_id) THEN [r |-> r, exc |-> "None"]
    ELSE Discovered(ReadNextMessage(r))

\* parse_first_and_reset, the rewind after the loop
Rewound(d) ==
    IF d.exc = "None" THEN [r |-> [d.r EXCEPT !.fd_pos = 0], exc |-> "None"] ELSE d

\* parse_first_and_reset
ParseFirstAndReset(r) ==
    IF r.suffix \notin {"bson", "raw"}
    THEN [r |-> r, exc |-> "None"]
    ELSE Rewound(Discover([r EXCEPT !.fd_open = TRUE, !.parser = r.suffix]))

RECURSIVE Drain(_)
\* __init__, the eager drain after one cacheless_next c
Drained(c) ==
    CASE c.ret = "return" ->
              Drain([c.r EXCEPT !.api_call_cache = Append(@, c.val)])
      [] c.ret = "StopIteration" ->
              [r |-> [c.r EXCEPT !.api_call_cache = Append(@, None)], exc |-> "None"]
      [] OTHER -> [r |-> c.r, exc |-> c.ret]

\* __init__, the eager drain into api_call_cache
Drain(r) == Drained(CachelessNext(r))

\* __init__, after the identity discovery p
Boosted(p) ==
    IF p.exc # "None" THEN p
    ELSE IF p.r.ram_boost THEN Drain(p.r)
    ELSE p

\* __init__, on the attributes r0
Opened(r0) ==
    Boosted(IF r0.exists /\ r0.size > 0 THEN ParseFirstAndReset(r0)
            ELSE [r |-> r0, exc |-> "None"])

\* __init__: exc is "None" or what stops the constructor from returning
Construct(file, cfg) == Opened(NewLog(file, cfg))

\* ------------------------------------------- ParseProcessLog (reporting mode)
\* begin_reporting, the inner loop over one entry's arguments: raw_value is
\* deleted argument by argument, and the first argument without one raises
StripArguments(arguments) ==
    LET bad == {i \in 1..Len(arguments) : "raw_value" \notin DOMAIN arguments[i]}
        stop == IF bad = {} THEN Len(arguments) + 1
                ELSE CHOOSE i \in bad : \A j \in bad : i <= j
    IN [arguments |-> [i \in 1..Len(arguments) |->
                          IF i < stop THEN DelKey(arguments[i], "raw_value")
                          ELSE arguments[i]],
        exc |-> IF bad = {} THEN "None" ELSE "KeyError"]

RECURSIVE StripCache(_, _)
\* begin_reporting, the loop once the arguments of entry idx are stripped
Stripped(cache1, idx, exc) ==
    IF exc # "None" THEN [cache |-> cache1, exc |-> exc]
    ELSE StripCache(cache1, idx + 1)

\* begin_reporting, one entry of the cache
StripEntry(cache, idx, s) ==
    Stripped([cache EXCEPT ![idx + 1].arguments = s.arguments], idx, s.exc)

\* begin_reporting, the loop over the cache from index idx (0-based)
StripCache(cache, idx) ==
    IF cache[idx + 1] = None THEN [cache |-> cache, exc |-> "None"]
    ELSE IF "arguments" \notin DOMAIN cache[idx + 1]
    THEN [cache |-> cache, exc |-> "KeyError"]
    ELSE StripEntry(cache, idx, StripArguments(cache[idx + 1].arguments))

\* begin_reporting, the cache after the loop
Reported(r1, s) == [r |-> [r1 EXCEPT !.api_call_cache = s.cache], ret |-> s.exc]

\* begin_reporting; ret is "None" or the exception raised
BeginReporting(r) ==
    IF r.ram_boost
    THEN Reported([r EXCEPT !.reporting_mode = TRUE], StripCache(r.api_call_cache, 0))
    ELSE [r |-> [r EXCEPT !.reporting_mode = TRUE], ret |-> "None"]

\* ------------------------------------------------------- the decoded streams
\* the process-identity event every stream starts with
P0 == ProcessEv(10, 1, 0, "C:\\a.exe", "a.exe")

ArgsS == <<[name |-> "FullName", raw |-> StrRaw("1")],
           [name |-> "Disposition", raw |-> IntRaw(1)]>>
\* the same printable values from another raw value
ArgsI == <<[name |-> "FullName", raw |-> IntRaw(1)],
           [name |-> "Disposition", raw |-> IntRaw(1)]>>

\* api-call events: cA2 differs from cA in thread, time, category, callers and
\* the decoder's repeat count only; cAi, cAf, cAr and cB differ from cA in the
\* raw argument, the success flag, the return value and the API name only
cA == CallEv("RegCreateKeyExW", "registry", 0, 1, IntRaw(0), 1, 0, 0, ArgsS)
cA2 == CallEv("RegCreateKeyExW", "system", 1, 1, IntRaw(0), 2, 1, 1, ArgsS)
cAi == CallEv("RegCreateKeyExW", "registry", 0, 1, IntRaw(0), 1, 0, 0, ArgsI)
cAf == CallEv("RegCreateKeyExW", "registry", 0, 0, IntRaw(0), 1, 0, 0, ArgsS)
cAr == CallEv("RegCreateKeyExW", "registry", 0, 1, IntRaw(2), 1, 0, 0, ArgsS)
cB == CallEv("RegOpenKeyExW", "registry", 0, 1, IntRaw(0), 1, 0, 0, ArgsS)
\* a call without arguments
cC == CallEv("NtClose", "system", 0, 0, IntRaw(2), 1, 2, 0, <<>>)
anomaly == AnomalyEv("unhook", "1", "NtClose", "hook modified")

FullAlphabet == {cA, cA2, cAi, cAf, cAr, cB, cC, anomaly}
FoldAlphabet == {cA, cB}

\* the sequences over S of length 1..n
SeqsUpTo(S, n) == UNION {[1..k -> S] : k \in 1..n}

\* the reconstructors tried: every stream over the full alphabet without a
\* call-count limit, every stream over {A, B} under every limit, each under
\* the lazy and the eager policy
LogOf(body) == LogFile("bson", <<P0>> \o body, "clean")

Inputs ==
    {<<LogOf(b), Config(0, e)>> : b \in SeqsUpTo(FullAlphabet, MaxLen), e \in BOOLEAN}
    \cup {<<LogOf(b), Config(l, e)>> :
            b \in SeqsUpTo(FoldAlphabet, MaxFold), l \in 0..MaxLimit, e \in BOOLEAN}

\* ------------------------------------------------------------- ProcessTree
\* A node is the dict event_apicall builds; self.tree and the children lists
\* hold references to the nodes, written here as positions in self.processes.
ProcessTree == [processes |-> <<>>, tree |-> <<>>]

\* the node built for a process
TreeNode(process) ==
    [name |-> process.process_name,
     pid |-> process.process_id,
     parent_id |-> process.parent_id,
     module_path |-> process.module_path,
     children |-> <<>>,
     threads |-> process.threads]

\* event_apicall: the first record seen of a process id adds its node
TreeEventApicall(t, call, process) ==
    IF \E i \in 1..Len(t.processes) : t.processes[i].pid = process.process_id
    THEN t
    ELSE [t EXCEPT !.processes = Append(@, TreeNode(process))]

\* add_node(node, tree) from the i-th element of the list on, where the list
\* is self.tree (ref = 0) or the children of node ref.  res holds
\* self.processes and "None" or the exception under way; depth counts the
\* nested calls: one more than there are nodes means the children lists form
\* a cycle, which the recursion follows until the interpreter's limit stops
\* it with RuntimeError
RECURSIVE AddNode(_, _, _, _, _, _)
AddNode(res, tree, node, ref, i, depth) ==
    IF res.exc # "None" THEN res
    ELSE IF depth > Len(res.procs) THEN [res EXCEPT !.exc = "RuntimeError"]
    ELSE IF i > Len(IF ref = 0 THEN tree ELSE res.procs[ref].children) THEN res
    ELSE IF res.procs[(IF ref = 0 THEN tree ELSE res.procs[ref].children)[i]].pid
               = res.procs[node].parent_id
         THEN AddNode([res EXCEPT
                          !.procs[(IF ref = 0 THEN tree
                                   ELSE res.procs[ref].children)[i]].children
                              = Append(@, node)],
                      tree, node, ref, i + 1, depth)
         ELSE AddNode(AddNode(res, tree, node,
                              (IF ref = 0 THEN tree ELSE res.procs[ref].children)[i],
                              1, depth + 1),
                      tree, node, ref, i + 1, depth)

\* whether some recorded process has the pid that node i names as its parent
HasParent(procs, i) == \E j \in 1..Len(procs) : procs[j].pid = procs[i].parent_id

\* the second loop of run: attach the nodes of the children list in order
RECURSIVE AttachChildren(_, _, _, _)
AttachChildren(res, tree, children, k) ==
    IF k > Len(children) \/ res.exc # "None" THEN res
    ELSE AttachChildren(AddNode(res, tree, children[k], 0, 1, 0), tree, children, k + 1)

\* run after its loops: the listener, and "None" or the exception raised
Attached(res, tree) ==
    [st |-> [processes |-> res.procs, tree |-> tree], exc |-> res.exc]

\* run with self.tree extended by the orphans to tree
Extended(t, tree) ==
    Attached(AttachChildren([procs |-> t.processes, exc |-> "None"], tree,
                            SelectSeq([i \in 1..Len(t.processes) |-> i],
                                      LAMBDA i : HasParent(t.processes, i)), 1),
             tree)

\* run: the listener afterwards, and "None" or the exception raised; what run
\* returns is the tree of the listener
TreeRun(t) ==
    Extended(t, t.tree \o SelectSeq([i \in 1..Len(t.processes) |-> i],
                                    LAMBDA i : ~HasParent(t.processes, i)))

\* ----------------------------------------------------------------- Anomaly
\* the last member of arguments[1..i] whose name is in names, or None
RECURSIVE LastArg(_, _, _)
LastArg(arguments, names, i) ==
    IF i = 0 THEN None
    ELSE IF arguments[i].name \in names THEN arguments[i]
    ELSE LastArg(arguments, names, i - 1)

\* the value a loop over the arguments leaves in a variable that starts as
\* None (NoStr) and is assigned the value of each argument named in names
LastValue(arguments, names) ==
    IF LastArg(arguments, names, Len(arguments)) = None THEN NoStr
    ELSE LastArg(arguments, names, Len(arguments)).value

Anomaly == [anomalies |-> <<>>]

\* event_apicall; st is the listener afterwards, exc "None" or what it raised
AnomalyEventApicall(a, call, process) ==
    IF call.category # "anomaly" THEN [st |-> a, exc |-> "None"]
    ELSE IF "arguments" \notin DOMAIN call THEN [st |-> a, exc |-> "KeyError"]
    ELSE [st |-> [a EXCEPT !.anomalies = Append(@,
                    [name |-> process.process_name,
                     pid |-> process.process_id,
                     category |-> LastValue(call.arguments, {"Subcategory"}),
                     funcname |-> LastValue(call.arguments, {"FunctionName"}),
                     message |-> LastValue(call.arguments, {"Message"})])],
          exc |-> "None"]

\* run
AnomalyRun(a) == a.anomalies

\* ----------------------------------------------------------------- Summary
\* str.startswith over the API names of the monitor that begin with a prefix
\* Summary tests
Family(prefix) ==
    CASE prefix = "RegOpenKeyEx" -> {"RegOpenKeyExA", "RegOpenKeyExW"}
      [] prefix = "RegSetValue" -> {"RegSetValueExA", "RegSetValueExW"}
      [] prefix = "RegDeleteValue" -> {"RegDeleteValueA", "RegDeleteValueW"}
      [] prefix = "RegCreateKeyEx" -> {"RegCreateKeyExA", "RegCreateKeyExW"}
      [] prefix = "NtOpenKey" -> {"NtOpenKey", "NtOpenKeyEx"}
      [] prefix = "RegQueryValue" -> {"RegQueryValueExA", "RegQueryValueExW"}
      [] prefix = "DeleteFile" -> {"DeleteFileA", "DeleteFileW"}
      [] prefix = "RemoveDirectory" -> {"RemoveDirectoryA", "RemoveDirectoryW"}
      [] prefix = "StartService" -> {"StartServiceA", "StartServiceW"}
      [] prefix = "CreateService" -> {"CreateServiceA", "CreateServiceW"}

StartsWith(s, prefix) == s \in Family(prefix)

\* str.strip over the values the streams carry
Strip(s) == IF s = " " THEN "" ELSE IF s = " m " THEN "m" ELSE s

\* the truth value of a string or None
Nonempty(v) == v # NoStr /\ v # ""

\* v.strip() of a value that may be None
Stripped0(v) == IF v = NoStr THEN NoStr ELSE Strip(v)

\* whether int(s, 10) succeeds, and its value
IsDecimal(s) == \E n \in 0..255 : Str(n) = s
Decimal(s) == CHOOSE n \in 0..255 : Str(n) = s

\* whether int(s, 16) succeeds, and its value
IsHex(s) == \E n \in 0..255 : s \in {Hex8(n), HexStr(n)}
Hex(s) == CHOOSE n \in 0..255 : s \in {Hex8(n), HexStr(n)}

\* bit k of n
Bit(n, k) ==
    IF k <= 30 THEN (n \div (2 ^ k)) % 2 = 1
    ELSE ((n \div (2 ^ 30)) \div (2 ^ (k - 30))) % 2 = 1

\* the access masks the filesystem branch tests
ReadAccess(access) ==
    Bit(access, 31) \/ Bit(access, 28) \/ Bit(access, 25) \/ Bit(access, 0)
WriteAccess(access) ==
    Bit(access, 30) \/ Bit(access, 28) \/ Bit(access, 25) \/ Bit(access, 1)
        \/ Bit(access, 2)

\* an append that does not look for x in the list
AppendNew_Always(list, x) == Append(list, x)

\* a list with x appended unless it is there
AppendNew(list, x) ==
    IF \E i \in 1..Len(list) : list[i] = x THEN list ELSE Append(list, x)

\* a list with x appended unless it is there or cond fails
AppendIf(cond, list, x) == IF cond THEN AppendNew(list, x) ELSE list

Summary ==
    [keys |-> <<>>, read_keys |-> <<>>, write_keys |-> <<>>, delete_keys |-> <<>>,
     mutexes |-> <<>>, files |-> <<>>, read_files |-> <<>>, write_files |-> <<>>,
     delete_files |-> <<>>, started_services |-> <<>>, created_services |-> <<>>]

\* the branch of event_apicall a call takes
SummaryBranch(call) ==
    IF StartsWith(call.api, "RegOpenKeyEx") THEN "open_key"
    ELSE IF StartsWith(call.api, "RegSetValue") \/ call.api = "NtSetValueKey"
    THEN "set_value"
    ELSE IF call.api = "NtDeleteValueKey" \/ call.api = "NtDeleteKey"
            \/ StartsWith(call.api, "RegDeleteValue")
    THEN "delete_key"
    ELSE IF StartsWith(call.api, "RegCreateKeyEx") THEN "create_key"
    ELSE IF StartsWith(call.api, "NtOpenKey") THEN "nt_open_key"
    ELSE IF call.api = "NtCreateKey" THEN "nt_create_key"
    ELSE IF StartsWith(call.api, "RegQueryValue") \/ call.api = "NtQueryValueKey"
            \/ call.api = "NtQueryMultipleValueKey"
    THEN "query_value"
    ELSE IF call.api = "ShellExecuteExW" THEN "shell_execute"
    ELSE IF call.api = "NtSetInformationFile" THEN "set_information"
    ELSE IF StartsWith(call.api, "DeleteFile") \/ call.api = "NtDeleteFile"
            \/ StartsWith(call.api, "RemoveDirectory")
    THEN "delete_file"
    ELSE IF StartsWith(call.api, "StartService") THEN "start_service"
    ELSE IF StartsWith(call.api, "CreateService") THEN "create_service"
    ELSE IF call.api = "MoveFileWithProgressW" THEN "move_file"
    ELSE IF call.category = "filesystem" THEN "filesystem"
    ELSE IF call.category = "synchronization" THEN "synchronization"
    ELSE "none"

\* list field grown by name when name is a non-empty string
Touch(s, field, name) ==
    IF Nonempty(name) THEN [s EXCEPT ![field] = AppendNew(@, name)] ELSE s

\* the first exception in a list of per-argument outcomes, "None" if none
FirstRaised(errs) ==
    IF \A i \in 1..Len(errs) : errs[i] = "None" THEN "None"
    ELSE errs[CHOOSE i \in 1..Len(errs) :
                 errs[i] # "None" /\ \A j \in 1..(i - 1) : errs[j] = "None"]

\* what converting the arguments named name with int(value, base) raises
IntErrors(arguments, name, base) ==
    FirstRaised([i \in 1..Len(arguments) |->
        IF arguments[i].name # name THEN "None"
        ELSE IF base = 10 /\ IsDecimal(arguments[i].value) THEN "None"
        ELSE IF base = 16 /\ IsHex(arguments[i].value) THEN "None"
        ELSE "ValueError"])

\* the integer a loop leaves in a variable assigned int(value, base) of each
\* argument named name, dflt when there is none
LastInt(arguments, name, base, dflt) ==
    IF LastValue(arguments, {name}) = NoStr THEN dflt
    ELSE IF base = 10 THEN Decimal(LastValue(arguments, {name}))
    ELSE Hex(LastValue(arguments, {name}))

\* the paths whose second character is a colon
DrivePaths == {"C:\\a.exe", "C:\\b.exe"}

\* ShellExecuteExW: the file path kept
ShellPath(v) == IF v \in DrivePaths THEN v ELSE NoStr

\* NtSetInformationFile: what the loop over the arguments raises
InformationErrors(arguments) ==
    FirstRaised([i \in 1..Len(arguments) |->
        IF arguments[i].name = "FileInformationClass"
              /\ ~IsDecimal(arguments[i].value) THEN "ValueError"
        ELSE IF arguments[i].name = "FileInformation"
              /\ "raw_value" \notin DOMAIN arguments[i] THEN "KeyError"
        ELSE "None"])

\* the raw value of the last argument named name, None when there is none
LastRaw(arguments, name) ==
    IF LastArg(arguments, {name}, Len(arguments)) = None THEN None
    ELSE LastArg(arguments, {name}, Len(arguments)).raw_value

\* the truth value of a raw value
RawTruthy(raw) ==
    raw # None /\ (IF raw.t = "int" THEN raw.v # "0" ELSE raw.v # "")

\* the first byte of a raw string
FirstByte(v) == IF v = "<NUL>" THEN 0 ELSE 1

\* NtSetInformationFile after the loop: the disposition test
Disposed(s, filename, infoclass, fileinfo) ==
    IF ~(Nonempty(filename) /\ infoclass = 13 /\ RawTruthy(fileinfo))
    THEN [st |-> s, exc |-> "None"]
    ELSE IF fileinfo.t = "int" THEN [st |-> s, exc |-> "TypeError"]
    ELSE IF FirstByte(fileinfo.v) # 0
    THEN [st |-> Touch(s, "delete_files", filename), exc |-> "None"]
    ELSE [st |-> s, exc |-> "None"]

\* list field grown by name when cond holds and name is a non-empty string
TouchIf(cond, s, field, name) == IF cond THEN Touch(s, field, name) ELSE s

\* the filesystem branch after the loop
Filesystem(s, filename, srcfilename, dstfilename, access) ==
    Touch(Touch(Touch(Touch(Touch(
        TouchIf(access # 0 /\ WriteAccess(access),
                TouchIf(access # 0 /\ ReadAccess(access), s, "read_files", filename),
                "write_files", filename),
        "files", filename),
        "read_files", srcfilename), "files", srcfilename),
        "write_files", dstfilename), "files", dstfilename)

\* the synchronization branch: the loop over arguments[i..]
RECURSIVE Mutexes(_, _, _)
Mutexes(s, arguments, i) ==
    IF i > Len(arguments) THEN s
    ELSE IF arguments[i].name = "MutexName"
    THEN Mutexes(Touch(s, "mutexes", Strip(arguments[i].value)), arguments, i + 1)
    ELSE Mutexes(s, arguments, i + 1)

\* a key creation that records the key as written whatever the disposition
Created_AnyDisposition(s, name, disposition) ==
    Touch(Touch(s, "keys", name), "write_keys", name)

\* RegCreateKeyEx and NtCreateKey after the loop: the key is recorded, and
\* recorded as written when the disposition is 1 (a new key was created)
Created(s, name, disposition) ==
    IF disposition = 1 THEN Touch(Touch(s, "keys", name), "write_keys", name)
    ELSE Touch(s, "keys", name)

\* event_apicall on a call that takes branch b and has the arguments args
SummaryHandled(s, b, args) ==
    CASE b = "open_key" ->
            [st |-> Touch(s, "keys", LastValue(args, {"FullName"})), exc |-> "None"]
      [] b = "set_value" ->
            [st |-> Touch(Touch(s, "keys", LastValue(args, {"FullName"})),
                          "write_keys", LastValue(args, {"FullName"})),
             exc |-> "None"]
      [] b = "delete_key" ->
            [st |-> Touch(Touch(s, "keys", LastValue(args, {"FullName"})),
                          "delete_keys", LastValue(args, {"FullName"})),
             exc |-> "None"]
      [] b = "create_key" ->
            IF IntErrors(args, "Disposition", 10) # "None"
            THEN [st |-> s, exc |-> IntErrors(args, "Disposition", 10)]
            ELSE [st |-> Created(s, LastValue(args, {"FullName"}),
                                 LastInt(args, "Disposition", 10, 0)),
                  exc |-> "None"]
      [] b = "nt_open_key" ->
            [st |-> Touch(s, "keys", LastValue(args, {"ObjectAttributes"})),
             exc |-> "None"]
      [] b = "nt_create_key" ->
            IF IntErrors(args, "Disposition", 10) # "None"
            THEN [st |-> s, exc |-> IntErrors(args, "Disposition", 10)]
            ELSE [st |-> Created(s, LastValue(args, {"ObjectAttributes"}),
                                 LastInt(args, "Disposition", 10, 0)),
                  exc |-> "None"]
      [] b = "query_value" ->
            [st |-> Touch(Touch(s, "keys", LastValue(args, {"FullName"})),
                          "read_keys", LastValue(args, {"FullName"})),
             exc |-> "None"]
      [] b = "shell_execute" ->
            [st |-> Touch(s, "files", ShellPath(LastValue(args, {"FilePath"}))),
             exc |-> "None"]
      [] b = "set_information" ->
            IF InformationErrors(args) # "None"
            THEN [st |-> s, exc |-> InformationErrors(args)]
            ELSE Disposed(s, Stripped0(LastValue(args, {"HandleName"})),
                          LastInt(args, "FileInformationClass", 10, 0),
                          LastRaw(args, "FileInformation"))
      [] b = "delete_file" ->
            [st |-> Touch(Touch(s, "files",
                        Stripped0(LastValue(args, {"FileName", "DirectoryName"}))),
                        "delete_files",
                        Stripped0(LastValue(args, {"FileName", "DirectoryName"}))),
             exc |-> "None"]
      [] b = "start_service" ->
            [st |-> Touch(s, "started_services",
                          Stripped0(LastValue(args, {"ServiceName"}))),
             exc |-> "None"]
      [] b = "create_service" ->
            [st |-> Touch(s, "created_services",
                          Stripped0(LastValue(args, {"ServiceName"}))),
             exc |-> "None"]
      [] b = "move_file" ->
            [st |-> Touch(Touch(Touch(Touch(s,
                        "files", Stripped0(LastValue(args, {"ExistingFileName"}))),
                        "delete_files", Stripped0(LastValue(args, {"ExistingFileName"}))),
                        "files", Stripped0(LastValue(args, {"NewFileName"}))),
                        "write_files", Stripped0(LastValue(args, {"NewFileName"}))),
             exc |-> "None"]
      [] b = "filesystem" ->
            IF IntErrors(args, "DesiredAccess", 16) # "None"
            THEN [st |-> s, exc |-> IntErrors(args, "DesiredAccess", 16)]
            ELSE [st |-> Filesystem(s,
                            Stripped0(LastValue(args, {"FileName", "DirectoryName"})),
                            Stripped0(LastValue(args, {"ExistingFileName"})),
                            Stripped0(LastValue(args, {"NewFileName"})),
                            LastInt(args, "DesiredAccess", 16, 0)),
                  exc |-> "None"]
      [] b = "synchronization" ->
            [st |-> Mutexes(s, args, 1), exc |-> "None"]

\* event_apicall; st is the listener afterwards, exc "None" or what it raised
SummaryEventApicall(s, call, process) ==
    IF SummaryBranch(call) = "none" THEN [st |-> s, exc |-> "None"]
    ELSE IF "arguments" \notin DOMAIN call THEN [st |-> s, exc |-> "KeyError"]
    ELSE SummaryHandled(s, SummaryBranch(call), call.arguments)

\* run
SummaryRun(s) == s

\* ---------------------------------------------------------------- Enhanced
Enhanced == [eid |-> 0, details |-> FALSE, modules |-> <<>>, procedures |-> <<>>,
             events |-> <<>>]

\* one entry of the table of generic events
Item(event, object, apis, args) ==
    [event |-> event, object |-> object, apis |-> apis, args |-> args]

\* the table of generic events, in the order it is searched
gendat ==
    << Item("move", "file", {"MoveFileWithProgressW", "MoveFileExA", "MoveFileExW"},
            << <<"from", "ExistingFileName">>, <<"to", "NewFileName">> >>),
       Item("copy", "file", {"CopyFileA", "CopyFileW", "CopyFileExW", "CopyFileExA"},
            << <<"from", "ExistingFileName">>, <<"to", "NewFileName">> >>),
       Item("delete", "file", {"DeleteFileA", "DeleteFileW", "NtDeleteFile"},
            << <<"file", "FileName">> >>),
       Item("delete", "dir", {"RemoveDirectoryA", "RemoveDirectoryW"},
            << <<"file", "DirectoryName">> >>),
       Item("create", "dir", {"CreateDirectoryW", "CreateDirectoryExW"},
            << <<"file", "DirectoryName">> >>),
       Item("write", "file", {"URLDownloadToFileW", "URLDownloadToFileA"},
            << <<"file", "FileName">> >>),
       Item("read", "file", {"NtReadFile"}, << <<"file", "HandleName">> >>),
       Item("write", "file", {"NtWriteFile"}, << <<"file", "HandleName">> >>),
       Item("execute", "file",
            {"CreateProcessAsUserA", "CreateProcessAsUserW", "CreateProcessA",
             "CreateProcessW", "NtCreateProcess", "NtCreateProcessEx"},
            << <<"file", "FileName">> >>),
       Item("execute", "file", {"CreateProcessInternalW"},
            << <<"file", "CommandLine">> >>),
       Item("execute", "file", {"ShellExecuteExA", "ShellExecuteExW"},
            << <<"file", "FilePath">> >>),
       Item("load", "library",
            {"LoadLibraryA", "LoadLibraryW", "LoadLibraryExA", "LoadLibraryExW",
             "LdrLoadDll", "LdrGetDllHandle"},
            << <<"file", "FileName">>, <<"pathtofile", "PathToFile">>,
               <<"moduleaddress", "BaseAddress">> >>),
       Item("findwindow", "windowname",
            {"FindWindowA", "FindWindowW", "FindWindowExA", "FindWindowExW"},
            << <<"classname", "ClassName">>, <<"windowname", "WindowName">> >>),
       Item("write", "registry", {"RegSetValueExA", "RegSetValueExW"},
            << <<"regkey", "FullName">>, <<"content", "Buffer">> >>),
       Item("write", "registry", {"RegCreateKeyExA", "RegCreateKeyExW"},
            << <<"regkey", "FullName">> >>),
       Item("read", "registry", {"RegQueryValueExA", "RegQueryValueExW"},
            << <<"regkey", "FullName">>, <<"content", "Data">> >>),
       Item("read", "registry", {"NtQueryValueKey"},
            << <<"regkey", "FullName">>, <<"content", "Information">> >>),
       Item("delete", "registry",
            {"RegDeleteKeyA", "RegDeleteKeyW", "RegDeleteValueA", "RegDeleteValueW",
             "NtDeleteValueKey"},
            << <<"regkey", "FullName">> >>),
       Item("create", "windowshook", {"SetWindowsHookExA"},
            << <<"id", "HookIdentifier">>, <<"moduleaddress", "ModuleAddress">>,
               <<"procedureaddress", "ProcedureAddress">> >>),
       Item("start", "service", {"StartServiceA", "StartServiceW"},
            << <<"service", "ServiceName">> >>),
       Item("modify", "service", {"ControlService"},
            << <<"service", "ServiceName">>, <<"controlcode", "ControlCode">> >>),
       Item("delete", "service", {"DeleteService"},
            << <<"service", "ServiceName">> >>) >>

\* dict.get on a dict held as a record or function
Get(d, k, default) == IF k \in DOMAIN d THEN d[k] ELSE default

\* _load_args: argument name -> value, a later argument replacing an earlier
LoadArgs(arguments) ==
    [n \in {arguments[i].name : i \in 1..Len(arguments)} |->
        LastValue(arguments, {n})]

\* the data of a generic event: log name -> args.get(argument name)
EventData(item, args) ==
    [l \in {item.args[i][1] : i \in 1..Len(item.args)} |->
        Get(args, item.args[CHOOSE i \in 1..Len(item.args) : item.args[i][1] = l][2],
            NoStr)]

\* _generic_handle_details on a matching item, with eid already incremented
GenericEvent(item, call, eid) ==
    [event |-> item.event, object |-> item.object, timestamp |-> call.timestamp,
     eid |-> eid, data |-> EventData(item, LoadArgs(call.arguments))]

\* the position in gendat of the first item that lists the api, 0 if none
FirstItem(api) ==
    IF \A i \in 1..Len(gendat) : api \notin gendat[i].apis THEN 0
    ELSE CHOOSE i \in 1..Len(gendat) :
            api \in gendat[i].apis /\ \A j \in 1..(i - 1) : api \notin gendat[j].apis

\* _get_service_action on the printable string of the record: in Python 2 a
\* str is no key of the table of integer codes and compares above every int
GetServiceAction(control_code) == "user"

\* a registration that keeps the module a handle already names
AddLoadedModule_KeepsFirst(e, name, base) ==
    IF base \in DOMAIN e.modules THEN e
    ELSE [e EXCEPT !.modules = WithKey(@, base, name)]

\* _add_loaded_module
AddLoadedModule(e, name, base) == [e EXCEPT !.modules = WithKey(@, base, name)]

\* _get_loaded_module
GetLoadedModule(e, base) == Get(e.modules, base, "")

\* _add_procedure
AddProcedure(e, mbase, name, base) ==
    [e EXCEPT !.procedures = WithKey(@, base, GetLoadedModule(e, mbase) \o ":" \o name)]

\* the listener with the event appended
WithEvent(e, event) == [e EXCEPT !.events = Append(@, event)]

\* _process_call after an event was built: the module bookkeeping, then the
\* service action, then event_apicall's append
Bookkept(e, call, args, event) ==
    IF call.api \in {"LoadLibraryA", "LoadLibraryW", "LoadLibraryExA",
                     "LoadLibraryExW", "LdrGetDllHandle"} /\ call.status
    THEN [st |-> WithEvent(AddLoadedModule(e, Get(args, "FileName", ""),
                                           Get(args, "ModuleHandle", "")), event),
          exc |-> "None"]
    ELSE IF call.api = "LdrLoadDll" /\ call.status
    THEN [st |-> WithEvent(AddLoadedModule(e, Get(args, "FileName", ""),
                                           Get(args, "BaseAddress", "")), event),
          exc |-> "None"]
    ELSE IF call.api = "LdrGetProcedureAddress" /\ call.status
    THEN [st |-> WithEvent(
                    AddProcedure(e, Get(args, "ModuleHandle", ""),
                                 Get(args, "FunctionName", ""),
                                 Get(args, "FunctionAddress", "")),
                    [event EXCEPT !.data = WithKey(@, "module",
                        GetLoadedModule(e, Get(args, "ModuleHandle", "")))]),
          exc |-> "None"]
    ELSE IF call.api = "SetWindowsHookExA"
    THEN [st |-> WithEvent(e, [event EXCEPT !.data = WithKey(@, "module",
                        GetLoadedModule(e, Get(args, "ModuleAddress", "")))]),
          exc |-> "None"]
    ELSE IF call.api = "ControlService"
    THEN IF "ControlCode" \notin DOMAIN args
         THEN [st |-> e, exc |-> "KeyError"]
         ELSE [st |-> WithEvent(e, [event EXCEPT !.data = WithKey(@, "action",
                                        GetServiceAction(args["ControlCode"]))]),
               exc |-> "None"]
    ELSE [st |-> WithEvent(e, event), exc |-> "None"]

\* event_apicall on a call whose api is listed by item i of gendat
Matched(e, call, i) ==
    Bookkept([e EXCEPT !.eid = @ + 1], call, LoadArgs(call.arguments),
             GenericEvent(gendat[i], call, e.eid + 1))

\* event_apicall; st is the listener afterwards, exc "None" or what it raised
EnhancedEventApicall(e, call, process) ==
    IF "arguments" \notin DOMAIN call THEN [st |-> e, exc |-> "KeyError"]
    ELSE IF FirstItem(call.api) = 0 THEN [st |-> e, exc |-> "None"]
    ELSE Matched(e, call, FirstItem(call.api))

\* run
EnhancedRun(e) == e.events

\* --------------------------------------------------------------- Processes
\* The logs folder is dir: whether it exists and its entries in the order
\* os.listdir gives them, each a sub-directory or a log file.
Folder(entries) == [exists |-> TRUE, entries |-> entries]
FileEntry(file) == [isdir |-> FALSE, file |-> file]
DirEntry == [isdir |-> TRUE]

\* configuration with the per-file size ceiling
ProcessingConfig(api_limit, ram_boost, analysis_size_limit) ==
    [api_limit |-> api_limit, ram_boost |-> ram_boost,
     analysis_size_limit |-> analysis_size_limit]

\* the dict appended for a reconstructor; "threads" is the list object of the
\* reconstructor, read through calls; logtime gives fixed-width text whose
\* order is the order of the times, kept here as the time
ProcessRecord(current_log) ==
    [process_id |-> current_log.process_id,
     process_name |-> current_log.process_name,
     parent_id |-> current_log.parent_id,
     module_path |-> current_log.module_path,
     first_seen |-> current_log.first_seen,
     calls |-> current_log]

\* list.sort(key = first_seen): stable, ascending
SortedByFirstSeen(results) ==
    [k \in 1..Len(results) |->
        results[CHOOSE i \in 1..Len(results) :
            k = 1 + Cardinality({j \in 1..Len(results) :
                        \/ results[j].first_seen < results[i].first_seen
                        \/ (results[j].first_seen = results[i].first_seen /\ j < i)})]]

RECURSIVE Collect(_, _, _, _)
\* run, the loop over the entries after constructing c for entry i
Collected(entries, cfg, i, results, c) ==
    IF c.exc # "None" THEN [results |-> results, exc |-> c.exc]
    ELSE IF c.r.process_id = NoInt THEN Collect(entries, cfg, i + 1, results)
    ELSE Collect(entries, cfg, i + 1, Append(results, ProcessRecord(c.r)))

\* run, the loop over the entries from the i-th on
Collect(entries, cfg, i, results) ==
    IF i > Len(entries) THEN [results |-> SortedByFirstSeen(results), exc |-> "None"]
    ELSE IF entries[i].isdir THEN Collect(entries, cfg, i + 1, results)
    ELSE IF entries[i].file.size > cfg.analysis_size_limit
    THEN Collect(entries, cfg, i + 1, results)
    ELSE Collected(entries, cfg, i, results, Construct(entries[i].file, cfg))

\* Processes(logs_path).run(): the list returned, or what escapes
ProcessesRun(dir, cfg) ==
    IF ~dir.exists THEN [results |-> <<>>, exc |-> "None"]
    ELSE IF Len(dir.entries) = 0 THEN [results |-> <<>>, exc |-> "None"]
    ELSE Collect(dir.entries, cfg, 1, <<>>)

\* -------------------------------------------------------- BehaviorAnalysis
\* A listener in the list of instances: its key, its state, and whether its
\* event_apicall is one that raises on every call.
Instance(key, st, fails) ==
    [key |-> key, st |-> st, fails |-> fails, breaks |-> FALSE]

\* the instances with the one keyed key given a run() that raises
Breaking(instances, key) ==
    [i \in 1..Len(instances) |->
        [instances[i] EXCEPT !.breaks = (instances[i].key = key)]]

\* the instances of run, in order; the one keyed failing raises on every call
Instances(failing) ==
    << Instance("anomaly", Anomaly, failing = "anomaly"),
       Instance("processtree", ProcessTree, failing = "processtree"),
       Instance("summary", Summary, failing = "summary"),
       Instance("enhanced", Enhanced, failing = "enhanced") >>

\* instance.event_apicall(call, process)
EventApicall(inst, call, process) ==
    IF inst.fails THEN [st |-> inst.st, exc |-> "Exception"]
    ELSE IF inst.key = "anomaly" THEN AnomalyEventApicall(inst.st, call, process)
    ELSE IF inst.key = "processtree"
    THEN [st |-> TreeEventApicall(inst.st, call, process), exc |-> "None"]
    ELSE IF inst.key = "summary" THEN SummaryEventApicall(inst.st, call, process)
    ELSE EnhancedEventApicall(inst.st, call, process)

\* the nested list that ProcessTree.run returns for the node references refs
RECURSIVE TreeValue(_, _)
TreeValue(procs, refs) ==
    [k \in 1..Len(refs) |->
        [procs[refs[k]] EXCEPT !.children = TreeValue(procs, @)]]

\* ProcessTree.run() ended as x: the value returned, or the exception
TreeRan(x) ==
    IF x.exc # "None" THEN [st |-> x.st, val |-> None, exc |-> x.exc]
    ELSE [st |-> x.st, val |-> TreeValue(x.st.processes, x.st.tree), exc |-> "None"]

\* instance.run(): the listener afterwards, and the value returned or the
\* exception raised
InstanceRun(inst) ==
    IF inst.breaks THEN [st |-> inst.st, val |-> None, exc |-> "Exception"]
    ELSE IF inst.key = "anomaly"
    THEN [st |-> inst.st, val |-> AnomalyRun(inst.st), exc |-> "None"]
    ELSE IF inst.key = "processtree" THEN TreeRan(TreeRun(inst.st))
    ELSE IF inst.key = "summary"
    THEN [st |-> inst.st, val |-> SummaryRun(inst.st), exc |-> "None"]
    ELSE [st |-> inst.st, val |-> EnhancedRun(inst.st), exc |-> "None"]

\* the process dict as a listener reads it; threads names the list object
ProcessView(process) ==
    [process_id |-> process.process_id, process_name |-> process.process_name,
     parent_id |-> process.parent_id, module_path |-> process.module_path,
     first_seen |-> process.first_seen, threads |-> [of |-> process.process_id]]

\* run after Processes.run() gave c: the state of the call in progress.
\* pc is "iterate" (the for loop asks process p for its next call), "dispatch"
\* (call goes to instance i), "finish" (instance i is run), "returned", or
\* "raised" with exc what escaped; behavior holds the listeners' keys of the
\* result (its "processes" is the list processes); dispatched lists the
\* event_apicall calls made and logged the exceptions logged
Started(c, instances) ==
    [pc |-> IF c.exc = "None" THEN "iterate" ELSE "raised",
     exc |-> c.exc,
     processes |-> IF c.exc = "None" THEN c.results ELSE <<>>,
     instances |-> instances,
     behavior |-> <<>>,
     p |-> 1, call |-> None, i |-> 1,
     dispatched |-> <<>>, logged |-> <<>>]

\* run up to the dispatch loop
Start(dir, cfg, instances) == Started(ProcessesRun(dir, cfg), instances)

\* the for loop over process["calls"] got n from next()
Iterated(o, n) ==
    IF n.ret = "return"
    THEN [o EXCEPT !.processes[o.p].calls = n.r, !.call = n.val,
                   !.pc = "dispatch", !.i = 1]
    ELSE IF n.ret = "StopIteration"
    THEN [o EXCEPT !.processes[o.p].calls = n.r, !.p = @ + 1]
    ELSE [o EXCEPT !.processes[o.p].calls = n.r, !.pc = "raised", !.exc = n.ret]

\* one turn of the loops over the processes and their calls
Iterate(o) ==
    IF o.p > Len(o.processes) THEN [o EXCEPT !.pc = "finish", !.i = 1]
    ELSE Iterated(o, next(o.processes[o.p].calls))

\* a dispatch that lets the exception of a listener escape
Dispatched_Escapes(o, res) ==
    IF res.exc # "None"
    THEN [o EXCEPT !.instances[o.i].st = res.st, !.pc = "raised", !.exc = res.exc,
                   !.dispatched = Append(@, [pid |-> o.processes[o.p].process_id,
                                             id |-> o.call.id,
                                             key |-> o.instances[o.i].key])]
    ELSE [o EXCEPT !.instances[o.i].st = res.st,
                   !.dispatched = Append(@, [pid |-> o.processes[o.p].process_id,
                                             id |-> o.call.id,
                                             key |-> o.instances[o.i].key]),
                   !.i = IF o.i = Len(o.instances) THEN 1 ELSE @ + 1,
                   !.pc = IF o.i = Len(o.instances) THEN "iterate" ELSE "dispatch",
                   !.call = IF o.i = Len(o.instances) THEN None ELSE @]

\* the try block around event_apicall ended with res
Dispatched(o, res) ==
    [o EXCEPT !.instances[o.i].st = res.st,
              !.logged = IF res.exc = "None" THEN @
                         ELSE Append(@, <<"event_apicall", o.instances[o.i].key>>),
              !.dispatched = Append(@, [pid |-> o.processes[o.p].process_id,
                                        id |-> o.call.id,
                                        key |-> o.instances[o.i].key]),
              !.i = IF o.i = Len(o.instances) THEN 1 ELSE @ + 1,
              !.pc = IF o.i = Len(o.instances) THEN "iterate" ELSE "dispatch",
              !.call = IF o.i = Len(o.instances) THEN None ELSE @]

\* the call in hand goes to instance i
Dispatch(o) ==
    Dispatched(o, EventApicall(o.instances[o.i], o.call,
                               ProcessView(o.processes[o.p])))

\* process["calls"].reset() for the processes from the k-th on
RECURSIVE ResetAll(_, _)
ResetAll(processes, k) ==
    IF k > Len(processes) THEN [processes |-> processes, exc |-> "None"]
    ELSE IF Reset(processes[k].calls).ret # "None"
    THEN [processes |-> processes, exc |-> Reset(processes[k].calls).ret]
    ELSE ResetAll([processes EXCEPT ![k].calls = Reset(processes[k].calls).r], k + 1)

\* a last loop that lets the exception of a run() escape
Finished_Escapes(o, res, z) ==
    IF res.exc # "None"
    THEN [o EXCEPT !.instances[o.i].st = res.st, !.pc = "raised", !.exc = res.exc]
    ELSE [o EXCEPT !.instances[o.i].st = res.st,
                   !.behavior = WithKey(@, o.instances[o.i].key, res.val),
                   !.processes = z.processes,
                   !.exc = z.exc,
                   !.pc = IF z.exc # "None" THEN "raised"
                          ELSE IF o.i = Len(o.instances) THEN "returned" ELSE "finish",
                   !.i = @ + 1]

\* the turn of the last loop for instance i: run() gave res, the resets z
Finished(o, res, z) ==
    [o EXCEPT !.instances[o.i].st = res.st,
              !.behavior = IF res.exc = "None"
                           THEN WithKey(@, o.instances[o.i].key, res.val) ELSE @,
              !.logged = IF res.exc = "None" THEN @
                         ELSE Append(@, <<"run", o.instances[o.i].key>>),
              !.processes = z.processes,
              !.exc = z.exc,
              !.pc = IF z.exc # "None" THEN "raised"
                     ELSE IF o.i = Len(o.instances) THEN "returned" ELSE "finish",
              !.i = @ + 1]

\* instance i is run and every stream is reset
Finish(o) == Finished(o, InstanceRun(o.instances[o.i]), ResetAll(o.processes, 1))

\* run from o to its end
RECURSIVE RunToEnd(_)
RunToEnd(o) ==
    IF o.pc = "iterate" THEN RunToEnd(Iterate(o))
    ELSE IF o.pc = "dispatch" THEN RunToEnd(Dispatch(o))
    ELSE IF o.pc = "finish" THEN RunToEnd(Finish(o))
    ELSE o

\* ------------------------------------------------------------------- state
VARIABLES
    plog,      \* the ParseProcessLog instance read by the consumer
    pc,        \* "ready", or what stopped the constructor
    out,       \* what next() gave in the current pass, in order
    passes,    \* the completed passes (each ended by StopIteration)
    start,     \* how the current pass began: "init", "auto" or "reset"
    modes,     \* the values of reporting_mode at the next() calls of this pass
    lastOp,    \* the last operation of the consumer, how it ended, and
               \* reporting_mode before it
    ptree,     \* a ProcessTree listener driven on its own
    treeRet,   \* what its last run() returned, None after an event_apicall
    treeRuns,  \* how many times its run() was called
    logs_path, \* the logs folder of an orchestration run
    config,    \* its configuration
    failing,   \* the key of the listener whose event_apicall always raises
    finishing, \* the key of the listener whose run() raises
    orch,      \* the state of BehaviorAnalysis.run
    listener,  \* a Summary or Enhanced listener driven on its own
    heard      \* the calls dispatched to it, each with what it raised

consumerVars == <<plog, pc, out, passes, start, modes, lastOp>>
treeVars == <<ptree, treeRet, treeRuns>>
runVars == <<logs_path, config, failing, finishing, orch>>
listenVars == <<listener, heard>>
vars == <<consumerVars, treeVars, runVars, listenVars>>

\* no reconstructor is being read
ConsumerIdle ==
    /\ plog = None
    /\ pc = "idle"
    /\ out = <<>>
    /\ passes = <<>>
    /\ start = "init"
    /\ modes = {}
    /\ lastOp = [op |-> "init", ret |-> "None", was |-> FALSE]

\* no ProcessTree is being driven
TreeIdle ==
    /\ ptree = None
    /\ treeRet = None
    /\ treeRuns = 0

\* no orchestration run is under way
RunIdle ==
    /\ logs_path = None
    /\ config = None
    /\ failing = "none"
    /\ finishing = "none"
    /\ orch = [pc |-> "idle"]

\* no listener is being driven on its own
ListenIdle ==
    /\ listener = None
    /\ heard = <<>>

\* the state after the construction c
InitFrom(c) ==
    /\ plog = c.r
    /\ pc = IF c.exc = "None" THEN "ready" ELSE c.exc
    /\ out = <<>>
    /\ passes = <<>>
    /\ start = "init"
    /\ modes = {}
    /\ lastOp = [op |-> "init", ret |-> c.exc, was |-> FALSE]

\* the state after constructing the reconstructor of file under cfg
InitOf(file, cfg) == InitFrom(Construct(file, cfg))

Init == TreeIdle /\ RunIdle /\ ListenIdle /\ \E in \in Inputs : InitOf(in[1], in[2])

\* a completed pass as the consumer remembers it: the records of a pass read
\* partly before and partly after begin_reporting are not kept
PassOf(recs, how, ms) ==
    [recs |-> IF Cardinality(ms) = 1 THEN recs ELSE <<>>, start |-> how, modes |-> ms]

\* the consumer calls next()
DoNext ==
    /\ pc = "ready"
    /\ Len(passes) < MaxPasses
    /\ Len(out) < MaxRead
    /\ \E n \in {next(plog)} :
          /\ plog' = n.r
          /\ lastOp' = [op |-> "next", ret |-> n.ret, was |-> plog.reporting_mode]
          /\ IF n.ret = "StopIteration"
             THEN /\ passes' = Append(passes,
                                      PassOf(out, start, modes \cup {plog.reporting_mode}))
                  /\ out' = <<>>
                  /\ start' = "auto"
                  /\ modes' = {}
             ELSE /\ out' = Append(out, IF n.ret = "return" THEN n.val
                                        ELSE [raised |-> n.ret])
                  /\ modes' = modes \cup {plog.reporting_mode}
                  /\ UNCHANGED <<passes, start>>
    /\ UNCHANGED pc
    /\ UNCHANGED <<treeVars, runVars, listenVars>>

\* the consumer calls reset()
DoReset ==
    /\ pc = "ready"
    /\ Len(passes) < MaxPasses
    /\ \E z \in {Reset(plog)} :
          /\ plog' = z.r
          /\ lastOp' = [op |-> "reset", ret |-> z.ret, was |-> plog.reporting_mode]
          /\ IF z.ret = "None"
             THEN /\ start' = "reset"
                  /\ out' = <<>>
                  /\ modes' = {}
             ELSE UNCHANGED <<start, out, modes>>
    /\ UNCHANGED <<pc, passes>>
    /\ UNCHANGED <<treeVars, runVars, listenVars>>

\* the consumer calls begin_reporting()
DoBeginReporting ==
    /\ pc = "ready"
    /\ Len(passes) < MaxPasses
    /\ \E b \in {BeginReporting(plog)} :
          /\ plog' = b.r
          /\ lastOp' = [op |-> "begin_reporting", ret |-> b.ret, was |-> plog.reporting_mode]
    /\ UNCHANGED <<pc, out, passes, start, modes>>
    /\ UNCHANGED <<treeVars, runVars, listenVars>>

Next == DoNext \/ DoReset \/ DoBeginReporting

Spec == Init /\ [][Next]_vars

\* ------------------------------------------------ an inert reconstructor
\* the files that leave a reconstructor inert: a missing one, an empty one
\* and one with a suffix that is neither .bson nor .raw
InertFiles ==
    { [LogOf(<<cA>>) EXCEPT !.exists = FALSE],
      LogFile("bson", <<>>, "clean"),
      LogFile("raw", <<>>, "clean"),
      LogFile("txt", <<P0, cA>>, "clean") }

InertInit ==
    /\ TreeIdle
    /\ RunIdle
    /\ ListenIdle
    /\ \E file \in InertFiles, l \in 0..MaxLimit, e \in BOOLEAN :
          InitOf(file, Config(l, e))

SpecInert == InertInit /\ [][Next]_vars

\* ----------------------------------------- a log with several identities
\* a process-identity event with other values than the first of the log
Other == ProcessEv(5, 2, 1, "C:\\b.exe", "b.exe")

\* the logs tried: the identity P0, then up to MaxLen events among api
\* calls, the same identity again and another identity
IdentityInit ==
    /\ TreeIdle
    /\ RunIdle
    /\ ListenIdle
    /\ \E body \in SeqsUpTo({cA, cB, P0, Other}, MaxLen), e \in BOOLEAN :
          InitOf(LogOf(body), Config(0, e))

SpecIdentity == IdentityInit /\ [][Next]_vars

\* ------------------------------------------- construction, step by step
\* the constructor followed one read of the decoder at a time.  pc is
\* "construct" (the attributes are set, the file not yet opened), "discover"
\* (inside the identity-discovery loop), and afterwards "ready" or the
\* exception that escaped the constructor
MaxBuild == 3

\* the non-empty logs tried: up to MaxBuild events among an identity, an api
\* call and an anomaly, ending cleanly or truncated, under either suffix
BuildFiles ==
    {LogFile(x, body, t) : x \in {"bson", "raw"},
                           body \in SeqsUpTo({P0, cA, anomaly}, MaxBuild),
                           t \in {"clean", "truncated"}}

BuildInit ==
    /\ TreeIdle
    /\ RunIdle
    /\ ListenIdle
    /\ \E file \in BuildFiles, e \in BOOLEAN : plog = NewLog(file, Config(0, e))
    /\ pc = "construct"
    /\ out = <<>>
    /\ passes = <<>>
    /\ start = "init"
    /\ modes = {}
    /\ lastOp = [op |-> "init", ret |-> "None", was |-> FALSE]

\* __init__ up to the loop of parse_first_and_reset: the file is opened and
\* the decoder chosen
BuildOpen ==
    /\ pc = "construct"
    /\ plog.exists /\ plog.size > 0 /\ plog.suffix \in {"bson", "raw"}
    /\ plog' = [plog EXCEPT !.fd_open = TRUE, !.parser = plog.suffix]
    /\ pc' = "discover"
    /\ UNCHANGED <<out, passes, start, modes, lastOp>>
    /\ UNCHANGED <<treeVars, runVars, listenVars>>

\* one turn of the loop whose test found no process id: the decoder reads
\* once, and what it returns is not looked at
BuildRead ==
    /\ pc = "discover"
    /\ ~Truthy(plog.process_id)
    /\ \E m \in {ReadNextMessage(plog)} :
          /\ plog' = m.r
          /\ pc' = IF m.ret \in {"True", "False"} THEN "discover" ELSE m.ret
    /\ UNCHANGED <<out, passes, start, modes, lastOp>>
    /\ UNCHANGED <<treeVars, runVars, listenVars>>

\* the test of the loop found a process id: the file is rewound and the
\* rest of __init__ runs
BuildEnd ==
    /\ pc = "discover"
    /\ Truthy(plog.process_id)
    /\ \E b \in {Boosted(Rewound([r |-> plog, exc |-> "None"]))} :
          /\ plog' = b.r
          /\ pc' = IF b.exc = "None" THEN "ready" ELSE b.exc
    /\ UNCHANGED <<out, passes, start, modes, lastOp>>
    /\ UNCHANGED <<treeVars, runVars, listenVars>>

BuildNext == BuildOpen \/ BuildRead \/ BuildEnd

\* the interpreter keeps running the constructor while it has a step to take
SpecBuild == BuildInit /\ [][BuildNext]_vars /\ WF_vars(BuildNext)

\* ----------------------------------------------- a ProcessTree on its own
\* the processes shown to the listener: pids 1..MaxPid, each with a parent
\* among them or the unrecorded pid 0
TreeProcs ==
    {[process_id |-> p, parent_id |-> q, process_name |-> "a.exe",
      module_path |-> "C:\\a.exe", threads |-> [of |-> p]] :
        p \in 1..MaxPid, q \in 0..MaxPid}

TreeInit ==
    /\ ConsumerIdle
    /\ RunIdle
    /\ ListenIdle
    /\ ptree = ProcessTree
    /\ treeRet = None
    /\ treeRuns = 0

\* a record of some process is dispatched to the listener
TreeObserve ==
    /\ treeRuns < MaxRuns
    /\ \E process \in TreeProcs :
          ptree' = TreeEventApicall(ptree, None, process)
    /\ treeRet' = None
    /\ UNCHANGED treeRuns
    /\ UNCHANGED <<consumerVars, runVars, listenVars>>

\* run() is called
TreeFinish ==
    /\ treeRuns < MaxRuns
    /\ \E x \in {TreeRun(ptree)} :
          /\ ptree' = x.st
          /\ treeRet' = IF x.exc = "None" THEN [tree |-> x.st.tree]
                        ELSE [raised |-> x.exc]
    /\ treeRuns' = treeRuns + 1
    /\ UNCHANGED <<consumerVars, runVars, listenVars>>

TreeNext == TreeObserve \/ TreeFinish

SpecTree == TreeInit /\ [][TreeNext]_vars

\* --------------------------------------------------- a Summary on its own
\* the record next() returns for the api-call event ev of a process
RecordOf(ev) == next(Construct(LogOf(<<ev>>), Config(0, FALSE)).r).val

\* the process of that record as the listeners see it
Observed == ProcessView(ProcessRecord(Construct(LogOf(<<>>), Config(0, FALSE)).r))

\* an api-call event of category and api with the arguments args
Call(api, category, args) == CallEv(api, category, 0, 1, IntRaw(0), 1, 0, 0, args)

\* an argument column
Arg(name, raw) == [name |-> name, raw |-> raw]

\* the registry, file, service and mutex calls shown to Summary
SummaryAlphabet ==
    { Call("RegCreateKeyExW", "registry",
           <<Arg("FullName", StrRaw("HKLM\\X")), Arg("Disposition", IntRaw(1))>>),
      Call("RegCreateKeyExW", "registry",
           <<Arg("FullName", StrRaw("HKLM\\X")), Arg("Disposition", IntRaw(2))>>),
      Call("RegCreateKeyExA", "registry",
           <<Arg("FullName", StrRaw("HKLM\\Y")), Arg("Disposition", IntRaw(1))>>),
      Call("RegCreateKeyExA", "registry", <<Arg("FullName", StrRaw("HKLM\\Y"))>>),
      Call("RegCreateKeyExW", "registry",
           <<Arg("FullName", StrRaw("")), Arg("Disposition", IntRaw(1))>>),
      Call("RegSetValueExW", "registry", <<Arg("FullName", StrRaw("HKLM\\X"))>>),
      Call("RegOpenKeyExW", "registry", <<Arg("FullName", StrRaw("HKLM\\Y"))>>),
      Call("RegQueryValueExW", "registry", <<Arg("FullName", StrRaw("HKLM\\X"))>>),
      Call("NtDeleteKey", "registry", <<Arg("FullName", StrRaw("HKLM\\Y"))>>),
      Call("NtOpenKey", "registry", <<Arg("ObjectAttributes", StrRaw("HKLM\\X"))>>),
      Call("NtCreateKey", "registry",
           <<Arg("ObjectAttributes", StrRaw("HKLM\\Y")), Arg("Disposition", IntRaw(1))>>),
      Call("NtCreateFile", "filesystem",
           <<Arg("FileName", StrRaw("C:\\a.exe")),
             Arg("DesiredAccess", StrRaw("0x00000001"))>>),
      Call("NtCreateFile", "filesystem",
           <<Arg("FileName", StrRaw("C:\\a.exe")),
             Arg("DesiredAccess", StrRaw("0x00000002"))>>),
      Call("CopyFileW", "filesystem",
           <<Arg("ExistingFileName", StrRaw("C:\\a.exe")),
             Arg("NewFileName", StrRaw("C:\\b.exe"))>>),
      Call("MoveFileWithProgressW", "filesystem",
           <<Arg("ExistingFileName", StrRaw("C:\\b.exe")),
             Arg("NewFileName", StrRaw("C:\\a.exe"))>>),
      Call("DeleteFileW", "filesystem", <<Arg("FileName", StrRaw("C:\\b.exe"))>>),
      Call("ShellExecuteExW", "process", <<Arg("FilePath", StrRaw("C:\\b.exe"))>>),
      Call("NtSetInformationFile", "filesystem",
           <<Arg("HandleName", StrRaw("C:\\a.exe")),
             Arg("FileInformationClass", IntRaw(13)),
             Arg("FileInformation", StrRaw("x"))>>),
      Call("StartServiceW", "services", <<Arg("ServiceName", StrRaw(" m "))>>),
      Call("StartServiceA", "services", <<Arg("ServiceName", StrRaw("m"))>>),
      Call("CreateServiceW", "services", <<Arg("ServiceName", StrRaw("m"))>>),
      Call("NtCreateMutant", "synchronization",
           <<Arg("MutexName", StrRaw(" m ")), Arg("MutexName", StrRaw("m"))>>),
      Call("NtOpenMutant", "synchronization", <<Arg("MutexName", StrRaw(" "))>>) }

\* their records
SummaryCalls == {RecordOf(ev) : ev \in SummaryAlphabet}

SummaryInit ==
    /\ ConsumerIdle
    /\ TreeIdle
    /\ RunIdle
    /\ listener = Summary
    /\ heard = <<>>

\* a call record of the process is dispatched to the listener
SummaryHear ==
    /\ Len(heard) < MaxHeard
    /\ \E call \in SummaryCalls :
          \E x \in {SummaryEventApicall(listener, call, Observed)} :
             /\ listener' = x.st
             /\ heard' = Append(heard, [call |-> call, exc |-> x.exc])
    /\ UNCHANGED <<consumerVars, treeVars, runVars>>

SpecSummary == SummaryInit /\ [][SummaryHear]_vars

\* -------------------------------------------------- an Enhanced on its own
\* a call to load a library: its success flag, file and handle
Load(api, status, file, handle, address) ==
    CallEv(api, "system", 0, status, IntRaw(0), 1, 0, 0,
           <<Arg("FileName", StrRaw(file)), Arg(handle, StrRaw(address))>>)

\* a call that sets a hook of the module at address
Hook(address) ==
    Call("SetWindowsHookExA", "hooking",
         <<Arg("HookIdentifier", IntRaw(2)), Arg("ModuleAddress", StrRaw(address)),
           Arg("ProcedureAddress", StrRaw("0x00001010"))>>)

\* a call that sends the control code to a service
Control(code) ==
    Call("ControlService", "services",
         <<Arg("ServiceName", StrRaw("m")), Arg("ControlCode", IntRaw(code))>>)

\* a successful call that resolves the function at address in the module at
\* handle
Resolve(handle, function, address) ==
    Call("LdrGetProcedureAddress", "system",
         <<Arg("ModuleHandle", StrRaw(handle)), Arg("FunctionName", StrRaw(function)),
           Arg("FunctionAddress", StrRaw(address))>>)

\* the control codes tried: the four named ones and one on either side of 128
ControlCodes == {1, 2, 3, 4, 5, 127, 128}

\* the library, hook and service calls shown to Enhanced, with a call that
\* the table of events does not list and a ControlService without its code
EnhancedAlphabet ==
    { Load("LoadLibraryW", 1, "evil.dll", "ModuleHandle", "0x00001000"),
      Load("LoadLibraryA", 1, "good.dll", "ModuleHandle", "0x00001000"),
      Load("LoadLibraryW", 0, "fail.dll", "ModuleHandle", "0x00001000"),
      Load("LoadLibraryExW", 1, "evil.dll", "ModuleHandle", "0x00002000"),
      Load("LdrLoadDll", 1, "ldr.dll", "BaseAddress", "0x00002000"),
      Hook("0x00001000"), Hook("0x00002000"),
      Resolve("0x00001000", "f", "0x00001010"),
      Call("ControlService", "services", <<Arg("ServiceName", StrRaw("m"))>>),
      Call("NtClose", "system", <<>>) }
    \cup {Control(c) : c \in ControlCodes}

\* their records
EnhancedCalls == {RecordOf(ev) : ev \in EnhancedAlphabet}

EnhancedInit ==
    /\ ConsumerIdle
    /\ TreeIdle
    /\ RunIdle
    /\ listener = Enhanced
    /\ heard = <<>>

\* a call record of the process is dispatched to the listener
EnhancedHear ==
    /\ Len(heard) < MaxHeard
    /\ \E call \in EnhancedCalls :
          \E x \in {EnhancedEventApicall(listener, call, Observed)} :
             /\ listener' = x.st
             /\ heard' = Append(heard, [call |-> call, exc |-> x.exc])
    /\ UNCHANGED <<consumerVars, treeVars, runVars>>

SpecEnhanced == EnhancedInit /\ [][EnhancedHear]_vars

\* ------------------------------------------------- an orchestration run
\* a second process, seen before the first
P1 == ProcessEv(5, 2, 1, "C:\\b.exe", "b.exe")

\* the log of process p with the events body after its identity
LogFor(p, body) == LogFile("bson", <<p>> \o body, "clean")

RunAlphabet == {cA, cB, anomaly}

\* the streams of a log: empty, or up to n events
Bodies(n) == {<<>>} \cup SeqsUpTo(RunAlphabet, n)

\* the logs folders tried: one log, one log after a sub-directory, and the
\* logs of two processes listed in either order
Folders ==
    {Folder(<<FileEntry(LogFor(P0, a))>>) : a \in Bodies(MaxRunLen)}
    \cup {Folder(<<DirEntry, FileEntry(LogFor(P0, a))>>) : a \in Bodies(MaxRunLen)}
    \cup {Folder(<<FileEntry(LogFor(P0, a)), FileEntry(LogFor(P1, b))>>) :
            a \in Bodies(MaxRunLen), b \in Bodies(MaxSecond)}
    \cup {Folder(<<FileEntry(LogFor(P1, b)), FileEntry(LogFor(P0, a))>>) :
            a \in Bodies(MaxRunLen), b \in Bodies(MaxSecond)}

Configs ==
    {ProcessingConfig(l, e, SizeLimit) : l \in 0..MaxLimit, e \in BOOLEAN}

Keys == <<"anomaly", "processtree", "summary", "enhanced">>

RunInit ==
    /\ ConsumerIdle
    /\ TreeIdle
    /\ ListenIdle
    /\ logs_path \in Folders
    /\ config \in Configs
    /\ failing \in {"none"} \cup Range(Keys)
    /\ finishing = "none"
    /\ orch = [pc |-> "start"]

\* run() calls Processes(logs_path).run() and builds the listeners
RunProcesses ==
    /\ orch.pc = "start"
    /\ orch' = Start(logs_path, config, Breaking(Instances(failing), finishing))
    /\ UNCHANGED <<logs_path, config, failing, finishing>>
    /\ UNCHANGED <<consumerVars, treeVars, listenVars>>

\* the loops of run ask for the next call
RunIterate ==
    /\ orch.pc = "iterate"
    /\ orch' = Iterate(orch)
    /\ UNCHANGED <<logs_path, config, failing, finishing>>
    /\ UNCHANGED <<consumerVars, treeVars, listenVars>>

\* run hands the call to the next listener
RunDispatch ==
    /\ orch.pc = "dispatch"
    /\ orch' = Dispatch(orch)
    /\ UNCHANGED <<logs_path, config, failing, finishing>>
    /\ UNCHANGED <<consumerVars, treeVars, listenVars>>

\* run finishes the next listener and resets the streams
RunFinish ==
    /\ orch.pc = "finish"
    /\ orch' = Finish(orch)
    /\ UNCHANGED <<logs_path, config, failing, finishing>>
    /\ UNCHANGED <<consumerVars, treeVars, listenVars>>

RunNext == RunProcesses \/ RunIterate \/ RunDispatch \/ RunFinish

SpecRun == RunInit /\ [][RunNext]_vars

\* the runs in which the run() of one listener raises
FinishInit ==
    /\ ConsumerIdle
    /\ TreeIdle
    /\ ListenIdle
    /\ logs_path \in Folders
    /\ config \in Configs
    /\ failing = "none"
    /\ finishing \in Range(Keys)
    /\ orch = [pc |-> "start"]

SpecFinish == FinishInit /\ [][RunNext]_vars

\* ------------------------------------------- a Process Collector on its own
\* a third process, first seen together with the first
P2 == ProcessEv(10, 3, 1, "C:\\b.exe", "b.exe")

\* a log whose bytes end inside its first message
TruncatedLog == [LogFile("bson", <<>>, "truncated") EXCEPT !.size = 1]

\* the directory entries tried: a sub-directory, logs of one, two and three
\* events, an empty file, a file with an unsupported suffix and a log
\* truncated before its process identity
CollectEntries ==
    { DirEntry,
      FileEntry(LogFor(P0, <<>>)), FileEntry(LogFor(P0, <<cA, cB>>)),
      FileEntry(LogFor(P1, <<cA>>)), FileEntry(LogFor(P2, <<>>)),
      FileEntry(LogFile("bson", <<>>, "clean")),
      FileEntry(LogFile("txt", <<P0>>, "clean")),
      FileEntry(TruncatedLog) }

\* the logs folders tried: missing, empty, or up to MaxEntries entries
CollectFolders ==
    {[exists |-> FALSE, entries |-> <<>>], Folder(<<>>)}
    \cup {Folder(e) : e \in SeqsUpTo(CollectEntries, MaxEntries)}

\* the configurations tried: no size ceiling, a ceiling that some of the logs
\* exceed and one that none does, under the lazy and the eager policy
CollectConfigs ==
    {ProcessingConfig(0, e, z) : e \in BOOLEAN, z \in {0, SmallLimit, SizeLimit}}

CollectInit ==
    /\ ConsumerIdle
    /\ TreeIdle
    /\ ListenIdle
    /\ logs_path \in CollectFolders
    /\ config \in CollectConfigs
    /\ failing = "none"
    /\ finishing = "none"
    /\ orch = [pc |-> "collect"]

\* Processes(logs_path).run() is called
CollectRun ==
    /\ orch.pc = "collect"
    /\ \E c \in {ProcessesRun(logs_path, config)} :
          orch' = [pc |-> "collected", results |-> c.results, exc |-> c.exc]
    /\ UNCHANGED <<logs_path, config, failing, finishing>>
    /\ UNCHANGED <<consumerVars, treeVars, listenVars>>

SpecCollect == CollectInit /\ [][CollectRun]_vars



\* ============================================================ properties
\* the pending records the decode callbacks produce in one read of the whole
\* file of r, parsed with reporting_mode = mode
RawRecords(r, mode) ==
    LET evs == SelectSeq(r.events, LAMBDA ev : ev.type # "process")
    IN [i \in 1..Len(evs) |->
          IF evs[i].type = "call"
          THEN Parse([r EXCEPT !.reporting_mode = mode], evs[i])
          ELSE AnomalyRecord(evs[i])]

\* the four fields a merge is decided on
Agree4(a, b) ==
    /\ {"api", "status", "arguments", "return"} \subseteq (DOMAIN a) \cap (DOMAIN b)
    /\ a.api = b.api
    /\ a.status = b.status
    /\ a.arguments = b.arguments
    /\ a.return = b.return

\* the positions of raw that start a maximal run of adjacent agreeing records
Starts(raw) == {i \in 1..Len(raw) : i = 1 \/ ~Agree4(raw[i - 1], raw[i])}

\* the k-th smallest member of a set of positions
Kth(S, k) == CHOOSE i \in S : Cardinality({j \in S : j < i}) = k - 1

\* the last position of the run that starts at i, where starts are the
\* starts of the runs of a stream of n records
RunEnd(starts, n, i) ==
    IF \A j \in starts : j <= i THEN n
    ELSE (CHOOSE j \in starts : j > i /\ \A l \in starts : l > i => j <= l) - 1

\* sum of (repeated + 1) over raw[i..j]
RECURSIVE Occurrences(_, _, _)
Occurrences(raw, i, j) ==
    IF i > j THEN 0 ELSE raw[i].repeated + 1 + Occurrences(raw, i + 1, j)

\* an argument list without the raw values
NoRaw(arguments) ==
    [i \in 1..Len(arguments) |-> DelKey(arguments[i], "raw_value")]

\* a returned record is the raw record but for repeated, id and raw values
SameCall(rec, raw) ==
    /\ (DOMAIN rec) \ {"id"} = DOMAIN raw
    /\ \A k \in (DOMAIN raw) \ {"repeated", "arguments"} : rec[k] = raw[k]
    /\ "arguments" \in DOMAIN raw => NoRaw(rec.arguments) = NoRaw(raw.arguments)

\* the reporting mode the merges of a pass were decided in: the eager policy
\* decides them all in the constructor
DecidedIn(ms) == IF plog.ram_boost THEN FALSE ELSE (CHOOSE m \in ms : TRUE)

\* a completed pass read wholly before or wholly after begin_reporting in
\* which no next() raised
Clean(p) ==
    /\ Cardinality(p.modes) = 1
    /\ \A i \in 1..Len(p.recs) : "raised" \notin DOMAIN p.recs[i]

\* whether a record carries a raw value on some argument
HasRaw(rec) ==
    /\ "arguments" \in DOMAIN rec
    /\ \E i \in 1..Len(rec.arguments) : "raw_value" \in DOMAIN rec.arguments[i]

\* a pass has just been completed by a next() that signalled exhaustion, and
\* no next() of it raised
Completed(ps) ==
    /\ Len(ps) >= 1
    /\ lastOp.op = "next" /\ lastOp.ret = "StopIteration"
    /\ Clean(ps[Len(ps)])

\* the records recs are, in order, the first records of the leading maximal
\* runs of raw: all of the runs when there is no call-count limit
FirstsOfRuns(recs, raw, starts) ==
    /\ plog.api_limit = 0 => Len(recs) = Cardinality(starts)
    /\ Len(recs) <= Cardinality(starts)
    /\ \A k \in 1..Len(recs) : SameCall(recs[k], raw[Kth(starts, k)])

\* the pass p returned the maximal runs of its decoded stream
RunsReturned(p) ==
    FirstsOfRuns(p.recs, RawRecords(plog, DecidedIn(p.modes)),
                 Starts(RawRecords(plog, DecidedIn(p.modes))))

\* the repeat count of rec is that of the run of raw that starts at i
RepeatOfRun(rec, raw, starts, i) ==
    rec.repeated = raw[i].repeated + Occurrences(raw, i + 1, RunEnd(starts, Len(raw), i))

\* the repeat counts of recs are those of the runs of raw
RepeatsOfRuns(recs, raw, starts) ==
    \A k \in 1..Len(recs) :
        "repeated" \in DOMAIN recs[k] =>
            RepeatOfRun(recs[k], raw, starts, Kth(starts, k))

\* the pass p returned the summed repeat counts of its runs
RepeatsSummed(p) ==
    RepeatsOfRuns(p.recs, RawRecords(plog, DecidedIn(p.modes)),
                  Starts(RawRecords(plog, DecidedIn(p.modes))))

\* the stream A, A, B, A
AABA == <<P0, cA, cA, cB, cA>>

\* C1: under either policy, a pass read to exhaustion after reset() returns
\* the same records (fields, order, repeat counts, sequence ids) as the pass
\* read to exhaustion before it.
C1_ResetRepeatsPass ==
    \A i \in 1..(Len(passes) - 1) :
        (/\ passes[i + 1].start = "reset"
         /\ passes[i].modes = passes[i + 1].modes
         /\ Cardinality(passes[i].modes) = 1)
        => passes[i + 1].recs = passes[i].recs

\* a lazy reconstructor read twice around a reset, the pass holding a folded
\* record
C1_Witness ==
    /\ ~plog.ram_boost
    /\ Len(passes) = 2
    /\ passes[2].start = "reset"
    /\ passes[1].modes = {FALSE} /\ passes[2].modes = {FALSE}
    /\ Clean(passes[1])
    /\ Len(passes[1].recs) >= 2
    /\ passes[1].recs[1].api = "RegCreateKeyExW"
    /\ passes[1].recs[1].repeated > 0

\* C2 as stated: the stream A, A, B, A read without a limit gives A with
\* repeat count 2, then B, then A with repeat count 0.
C2_AsStated ==
    (/\ plog.events = AABA /\ plog.api_limit = 0
     /\ Len(passes) >= 1 /\ Clean(passes[1]))
    => (/\ Len(passes[1].recs) = 3
        /\ passes[1].recs[1].api = "RegCreateKeyExW" /\ passes[1].recs[1].repeated = 2
        /\ passes[1].recs[2].api = "RegOpenKeyExW"
        /\ passes[1].recs[3].api = "RegCreateKeyExW" /\ passes[1].recs[3].repeated = 0)

\* C2 amended: the stream A, A, B, A (decoder repeat counts 0, no limit) read
\* in one full pass gives exactly three records: A with repeat count 1, then
\* B with repeat count 0, then A with repeat count 0.
C2_FoldAABA ==
    (/\ plog.events = AABA /\ plog.api_limit = 0
     /\ Len(passes) >= 1 /\ Clean(passes[1]))
    => (/\ Len(passes[1].recs) = 3
        /\ passes[1].recs[1].api = "RegCreateKeyExW" /\ passes[1].recs[1].repeated = 1
        /\ passes[1].recs[2].api = "RegOpenKeyExW" /\ passes[1].recs[2].repeated = 0
        /\ passes[1].recs[3].api = "RegCreateKeyExW" /\ passes[1].recs[3].repeated = 0)

\* the stream A, A, B, A has been read to exhaustion
C2_Witness ==
    /\ plog.events = AABA /\ plog.api_limit = 0
    /\ Len(passes) >= 1 /\ Clean(passes[1])
    /\ Len(passes[1].recs) = 3

\* C3: the records of a pass are the maximal runs of adjacent records of the
\* decoded stream that agree on API name, success flag, argument list and
\* return value: each returned record is the first record of its run (thread,
\* time, category and callers of the absorbed records play no part), and equal
\* records that are not adjacent stay separate.
C3_MergeIffAdjacentAgree ==
    Completed(passes) => RunsReturned(passes[Len(passes)])

\* a pass in which a call absorbed one that differs in thread, time, category
\* and callers, and another in which equal calls around a third stayed apart
C3_Witness ==
    /\ Len(passes) >= 1 /\ Clean(passes[1]) /\ plog.api_limit = 0
    /\ \/ /\ plog.events = <<P0, cA, cA2>>
          /\ Len(passes[1].recs) = 1
          /\ passes[1].recs[1].thread_id = "1"
       \/ /\ plog.events = <<P0, cA, cB, cA>>
          /\ Len(passes[1].recs) = 3

\* C4: the repeat count of a returned record is the first record's decoder
\* repeat count plus, for each absorbed record, its decoder repeat count plus
\* one.
C4_RepeatArithmetic ==
    Completed(passes) => RepeatsSummed(passes[Len(passes)])

\* a record that absorbed a call whose decoder repeat count is 1
C4_Witness ==
    /\ plog.events = <<P0, cA, cA2>>
    /\ Len(passes) >= 1 /\ Clean(passes[1])
    /\ Len(passes[1].recs) = 1
    /\ passes[1].recs[1].repeated = 2

\* the number of api-call events of the stream of r
RawCalls(r) == Len(SelectSeq(r.events, LAMBDA ev : ev.type = "call"))

\* whether the stream of r holds api-call events only, after the identity
CallsOnly(r) == \A i \in 2..Len(r.events) : r.events[i].type = "call"

\* C5 as stated: with a limit N > 0 and a raw stream of M > N calls a full
\* pass has exactly N records.
C5_AsStated ==
    (/\ plog.api_limit > 0 /\ CallsOnly(plog)
     /\ RawCalls(plog) > plog.api_limit
     /\ Len(passes) >= 1 /\ Clean(passes[1]))
    => Len(passes[1].recs) = plog.api_limit

\* C5 amended: with a limit N > 0 and a stream of api-call events that folds
\* to M > N records, a full pass returns exactly N records, never more, and
\* the next() after them signals exhaustion, not an error.
C5_CeilingOnFolded ==
    (/\ plog.api_limit > 0 /\ CallsOnly(plog) /\ pc = "ready"
     /\ Cardinality(Starts(RawRecords(plog, FALSE))) > plog.api_limit)
    => /\ Len(out) <= plog.api_limit
       /\ lastOp.op = "next" => lastOp.ret \in {"return", "StopIteration"}
       /\ \A p \in 1..Len(passes) :
             Clean(passes[p]) => Len(passes[p].recs) = plog.api_limit

\* a stream that folds to three records read under a limit of two
C5_Witness ==
    /\ plog.api_limit = 2
    /\ plog.events = <<P0, cA, cA, cB, cA>>
    /\ Len(passes) >= 1 /\ Clean(passes[1])
    /\ Len(passes[1].recs) = 2
    /\ lastOp.op = "next" /\ lastOp.ret = "StopIteration"

\* C6 as stated: once begin_reporting() has been called no record returned by
\* next() carries a raw value, and the call that enters reporting mode
\* completes without error.
C6_NoRawAfterReporting ==
    /\ (lastOp.op = "next" /\ lastOp.ret = "return" /\ lastOp.was)
          => ~HasRaw(out[Len(out)])
    /\ (lastOp.op = "begin_reporting" /\ ~lastOp.was) => lastOp.ret = "None"

\* whether following parent ids from node i for n steps comes back to i
RECURSIVE Returns(_, _, _, _)
Returns(procs, i, j, n) ==
    /\ n > 0
    /\ \E k \in 1..Len(procs) :
          /\ procs[k].pid = procs[j].parent_id
          /\ (k = i \/ Returns(procs, i, k, n - 1))

\* no recorded process is its own ancestor
Acyclic(procs) == \A i \in 1..Len(procs) : ~Returns(procs, i, i, Len(procs))

\* C7 as stated: whatever the order in which the processes were first seen,
\* run() returns as roots exactly the processes whose parent id is the pid of
\* no recorded process, and every other process is in the children list of
\* the node whose pid is its parent id.
C7_TreeAnyOrder ==
    (/\ treeRuns = 1 /\ "tree" \in DOMAIN treeRet /\ Acyclic(ptree.processes))
    => /\ Range(treeRet.tree) = {i \in 1..Len(ptree.processes) :
                                    ~HasParent(ptree.processes, i)}
       /\ \A i \in 1..Len(ptree.processes) :
             HasParent(ptree.processes, i) =>
                \E j \in 1..Len(ptree.processes) :
                   /\ ptree.processes[j].pid = ptree.processes[i].parent_id
                   /\ i \in Range(ptree.processes[j].children)

\* whether the run is over
Ended(o) == o.pc \in {"returned", "raised"}

\* the listeners of a run in which the listener keyed key is absent
Without(key) == SelectSeq(Instances("none"), LAMBDA inst : inst.key # key)

\* the run of the same folder under the same configuration in which the
\* failing listener is absent
Reference == RunToEnd(Start(logs_path, config, Without(failing)))

\* the dispatches of o to the listeners other than the failing one
ToOthers(o) == SelectSeq(o.dispatched, LAMBDA d : d.key # failing)

\* the run o and the run ref without the failing listener agree on the other
\* listeners
Isolated(o, ref) ==
    /\ ref.pc = o.pc
    /\ ToOthers(o) = ref.dispatched
    /\ (DOMAIN o.behavior) \ {failing} = DOMAIN ref.behavior
    /\ \A k \in DOMAIN ref.behavior : o.behavior[k] = ref.behavior[k]
    /\ \A d \in Range(o.dispatched) :
          d.key = failing =>
             \A k \in Range(Keys) \ {failing} :
                [d EXCEPT !.key = k] \in Range(o.dispatched)

\* C8: when the event_apicall of one listener raises on every call, every
\* call still goes to the other three listeners, and when the run ends their
\* results are those of the run in which that listener is absent.
C8_ListenerIsolation ==
    (failing # "none" /\ Ended(orch)) => Isolated(orch, Reference)

\* a run that returned although Summary raised on each of its calls, with
\* results from the other three listeners
C8_Witness ==
    /\ failing = "summary"
    /\ orch.pc = "returned"
    /\ Len(orch.processes) = 2
    /\ Len(orch.logged) >= 2
    /\ Len(orch.behavior["enhanced"]) >= 1
    /\ Len(orch.behavior["processtree"]) >= 1
    /\ orch.behavior["summary"] = Summary

\* the number of records the stream of a collected process folds to, cut at
\* the call-count limit
Expected(process) ==
    IF process.calls.api_limit > 0
          /\ Cardinality(Starts(RawRecords(process.calls, FALSE))) > process.calls.api_limit
    THEN process.calls.api_limit
    ELSE Cardinality(Starts(RawRecords(process.calls, FALSE)))

\* the dispatches of n records of a process, each to the four listeners
ProcessDispatch(process, n) ==
    [j \in 1..(n * Len(Keys)) |->
        [pid |-> process.process_id,
         id |-> (j - 1) \div Len(Keys),
         key |-> Keys[((j - 1) % Len(Keys)) + 1]]]

\* the dispatches of the processes from the k-th on
RECURSIVE DispatchFrom(_, _)
DispatchFrom(processes, k) ==
    IF k > Len(processes) THEN <<>>
    ELSE ProcessDispatch(processes[k], Expected(processes[k]))
            \o DispatchFrom(processes, k + 1)

\* C9 as stated: a run dispatches every record of every collected process to
\* each of the four listeners exactly once, the processes in ascending
\* first-seen order, the records in stream order, the listeners in the order
\* Anomaly, ProcessTree, Summary, Enhanced.
C9_DispatchOrder ==
    Ended(orch) =>
        /\ \A k \in 1..(Len(orch.processes) - 1) :
              orch.processes[k].first_seen <= orch.processes[k + 1].first_seen
        /\ orch.dispatched = DispatchFrom(orch.processes, 1)

\* the records a consumer gets from r up to exhaustion or an exception
RECURSIVE ReadAll(_)
ReadOn(n) ==
    IF n.ret = "return" THEN <<n.val>> \o ReadAll(n.r)
    ELSE IF n.ret = "StopIteration" THEN <<>>
    ELSE <<[raised |-> n.ret]>>
ReadAll(r) == ReadOn(next(r))

\* the stream of a reconstructor is in its reset state and reads as that of
\* a reconstructor just built from the same file
AtStart(r) ==
    /\ r.fd_pos = 0
    /\ r.api_count = 0
    /\ r.call_id = 0
    /\ r.lastcall = None
    /\ r.api_pointer = 0
    /\ ReadAll(r) = ReadAll(Construct(r, config).r)

\* C10: when run returns, the stream of every collected process is in its
\* reset state (position at the start, call count zero, next sequence id
\* zero, no pending record), and a consumer reading it gets the whole
\* sequence from the first record.
C10_StreamsResetOnReturn ==
    orch.pc = "returned" =>
        \A k \in 1..Len(orch.processes) :
            /\ AtStart(orch.processes[k].calls)
            /\ Len(ReadAll(orch.processes[k].calls))
                  = Cardinality({d \in Range(orch.dispatched) :
                        d.pid = orch.processes[k].process_id /\ d.key = "anomaly"})

\* a lazy run over two processes that returned after dispatching records of
\* both
C10_Witness ==
    /\ orch.pc = "returned"
    /\ ~config.ram_boost
    /\ Len(orch.processes) = 2
    /\ \A k \in 1..2 :
          \E d \in Range(orch.dispatched) : d.pid = orch.processes[k].process_id

\* the anomaly records among the records a consumer reads from r
AnomalyRecords(r) ==
    SelectSeq(ReadAll(r),
              LAMBDA rec : "category" \in DOMAIN rec /\ rec.category = "anomaly")

\* the entry the claim expects for the anomaly record rec of process
AnomalyEntry(process, rec) ==
    [name |-> process.process_name, pid |-> process.process_id,
     category |-> rec.subcategory, funcname |-> rec.funcname,
     message |-> rec.msg]

\* the entries expected for the processes from the k-th on
RECURSIVE AnomalyEntries(_, _)
AnomalyEntries(processes, k) ==
    IF k > Len(processes) THEN <<>>
    ELSE [j \in 1..Len(AnomalyRecords(processes[k].calls)) |->
             AnomalyEntry(processes[k], AnomalyRecords(processes[k].calls)[j])]
         \o AnomalyEntries(processes, k + 1)

\* C11 as stated: when run returns, the result of the Anomaly listener holds
\* one entry for every record of category "anomaly" in the streams, carrying
\* its subcategory, function name and message with the name and id of the
\* owning process, and no entry for any other record.
C11_AnomalyEntries ==
    (orch.pc = "returned" /\ failing # "anomaly") =>
        /\ "anomaly" \in DOMAIN orch.behavior
        /\ orch.behavior["anomaly"] = AnomalyEntries(orch.processes, 1)

\* how many times x is in list
Count(list, x) == Cardinality({i \in 1..Len(list) : list[i] = x})

\* the value of the argument of call named name, NoStr when it has none
ArgValue(call, name) == LastValue(call.arguments, {name})

\* call is a RegCreateKeyEx* call with a non-empty FullName
CreatesKey(call) ==
    /\ call.api \in {"RegCreateKeyExA", "RegCreateKeyExW"}
    /\ ArgValue(call, "FullName") \notin {NoStr, ""}

\* what C12 asks of the step in which call was dispatched
KeyRecorded(call, before, after) ==
    /\ Count(after.keys, ArgValue(call, "FullName")) = 1
    /\ IF ArgValue(call, "Disposition") = "1"
       THEN Count(after.write_keys, ArgValue(call, "FullName")) = 1
       ELSE after.write_keys = before.write_keys

\* C12: a RegCreateKeyEx* call with a non-empty FullName k puts k in the keys
\* of Summary, and puts k in its write keys if and only if the Disposition
\* argument is 1; however often the call is dispatched, k is in each of these
\* lists exactly once.
C12_CreateKeyRecorded ==
    [][\A h \in {heard'[Len(heard')]} :
          CreatesKey(h.call) => KeyRecorded(h.call, listener, listener')]_vars

\* the same RegCreateKeyEx* call with Disposition 1 dispatched twice, and a
\* creation of the same key with another disposition
C12_Witness ==
    /\ Len(heard) = 3
    /\ heard[1].call = heard[3].call
    /\ \A i \in 1..3 : CreatesKey(heard[i].call) /\ heard[i].exc = "None"
    /\ ArgValue(heard[1].call, "Disposition") = "1"
    /\ ArgValue(heard[2].call, "Disposition") = "2"
    /\ ArgValue(heard[2].call, "FullName") = ArgValue(heard[1].call, "FullName")
    /\ listener.keys = <<ArgValue(heard[1].call, "FullName")>>
    /\ listener.write_keys = listener.keys

\* the handle under which a successful load registers its module, NoStr for
\* any other call
LoadedAt(call) ==
    IF ~call.status THEN NoStr
    ELSE IF call.api \in {"LoadLibraryA", "LoadLibraryW", "LoadLibraryExA",
                          "LoadLibraryExW", "LdrGetDllHandle"}
    THEN ArgValue(call, "ModuleHandle")
    ELSE IF call.api = "LdrLoadDll" THEN ArgValue(call, "BaseAddress")
    ELSE NoStr

\* the positions in the calls heard of the successful loads at handle h
LoadsAt(h) == {j \in 1..Len(heard) : LoadedAt(heard[j].call) = h}

\* the file of the most recent of them
LastLoaded(h) ==
    ArgValue(heard[CHOOSE j \in LoadsAt(h) : \A k \in LoadsAt(h) : k <= j].call,
             "FileName")

\* the step appends exactly one event to those of the listener
Appended(before, after) ==
    /\ Len(after.events) = Len(before.events) + 1
    /\ SubSeq(after.events, 1, Len(before.events)) = before.events

\* what C13 asks of the step in which call was dispatched
ModuleTracked(call, before, after) ==
    /\ LoadedAt(call) # NoStr =>
          /\ Appended(before, after)
          /\ after.events[Len(after.events)].event = "load"
          /\ after.events[Len(after.events)].object = "library"
          /\ after.events[Len(after.events)].data["file"] = ArgValue(call, "FileName")
    /\ (call.api = "SetWindowsHookExA"
            /\ LoadsAt(ArgValue(call, "ModuleAddress")) # {}) =>
          /\ Appended(before, after)
          /\ after.events[Len(after.events)].data["module"]
                = LastLoaded(ArgValue(call, "ModuleAddress"))

\* C13: a successful LoadLibrary-family call with FileName f and ModuleHandle
\* h produces a "load" "library" event with data.file = f, and a later
\* SetWindowsHookExA call whose ModuleAddress equals h produces an event whose
\* data.module is the name registered by the most recent successful load at h.
C13_HookNamesLoadedModule ==
    [][\A h \in {heard'[Len(heard')]} :
          ModuleTracked(h.call, listener, listener')]_vars

\* a hook at a handle where two successful loads and no other registered a
\* module: the event names the second
C13_Witness ==
    /\ Len(heard) = 3
    /\ LoadedAt(heard[1].call) = "0x00001000"
    /\ LoadedAt(heard[2].call) = "0x00001000"
    /\ ArgValue(heard[1].call, "FileName") = "evil.dll"
    /\ ArgValue(heard[2].call, "FileName") = "good.dll"
    /\ heard[3].call.api = "SetWindowsHookExA"
    /\ ArgValue(heard[3].call, "ModuleAddress") = "0x00001000"
    /\ Len(listener.events) = 3
    /\ listener.events[3].data["module"] = "good.dll"

\* the action name the claim gives for control code c
ActionOf(c) ==
    IF c = 1 THEN "stop"
    ELSE IF c = 2 THEN "pause"
    ELSE IF c = 3 THEN "continue"
    ELSE IF c = 4 THEN "info"
    ELSE IF c >= 128 THEN "user" ELSE "notify"

\* C14 as stated: a ControlService call whose ControlCode argument denotes
\* code c produces an event whose data.action is "stop" for 1, "pause" for 2,
\* "continue" for 3, "info" for 4, and otherwise "user" if c >= 128 else
\* "notify".
C14_ServiceAction ==
    [][\A h \in {heard'[Len(heard')]} :
          (h.call.api = "ControlService"
              /\ IsDecimal(ArgValue(h.call, "ControlCode"))) =>
             /\ Appended(listener, listener')
             /\ listener'.events[Len(listener'.events)].data["action"]
                   = ActionOf(Decimal(ArgValue(h.call, "ControlCode")))]_vars

\* the files among the entries of the logs folder
FilesOf(dir) == SelectSeq(dir.entries, LAMBDA e : ~e.isdir)

\* the reconstructor of file obtained a process identity
Identified(file) ==
    /\ Construct(file, config).exc = "None"
    /\ Construct(file, config).r.process_id # NoInt

\* the process record of file
RecordFor(file) == ProcessRecord(Construct(file, config).r)

\* the list holds the record of file
Included(results, file) == \E k \in 1..Len(results) : results[k] = RecordFor(file)

\* C15 as stated: with the per-file size ceiling configured as zero the
\* Process Collector skips no file for its size: every non-empty log that
\* yields a process identity is in the result.
C15_ZeroCeilingSkipsNothing ==
    (orch.pc = "collected" /\ config.analysis_size_limit = 0) =>
        /\ orch.exc = "None"
        /\ \A i \in 1..Len(FilesOf(logs_path)) :
              (FilesOf(logs_path)[i].file.size > 0
                  /\ Identified(FilesOf(logs_path)[i].file)) =>
                 Included(orch.results, FilesOf(logs_path)[i].file)

\* file is within the size ceiling; a ceiling of zero is no ceiling
WithinCeiling(file) ==
    config.analysis_size_limit = 0 \/ file.size <= config.analysis_size_limit

\* the files of the folder that are within the ceiling and give an identity
Eligible(dir) ==
    SelectSeq(FilesOf(dir),
              LAMBDA e : WithinCeiling(e.file) /\ Identified(e.file))

\* the list is ascending by first-seen time
Ascending(results) ==
    \A k \in 1..(Len(results) - 1) :
        results[k].first_seen <= results[k + 1].first_seen

\* the list holds one record for each of the files and nothing else
OnePerFile(results, files) ==
    /\ Len(results) = Len(files)
    /\ \A i \in 1..Len(files) :
          Count(results, RecordFor(files[i].file))
             = Cardinality({j \in 1..Len(files) :
                               RecordFor(files[j].file) = RecordFor(files[i].file)})

\* C16 as stated: the Process Collector returns exactly one record for each
\* non-directory file that is within the size ceiling and whose reconstructor
\* obtained a process identity, none for any other entry, and the list is
\* ascending by first-seen time.
C16_OneRecordPerLog ==
    orch.pc = "collected" =>
        /\ orch.exc = "None"
        /\ OnePerFile(orch.results, Eligible(logs_path))
        /\ Ascending(orch.results)

\* the log ends before the decoder delivered a process identity
TruncatedEarly(file) ==
    /\ file.exists /\ file.size > 0
    /\ file.suffix \in {"bson", "raw"}
    /\ file.tail = "truncated"
    /\ \A i \in 1..Len(file.events) : file.events[i].type # "process"

\* the folder without the logs truncated before their identity
Untruncated(dir) ==
    [dir EXCEPT !.entries =
        SelectSeq(@, LAMBDA e : e.isdir \/ ~TruncatedEarly(e.file))]

\* C18 as stated: when a log ends before the decoder delivered a process
\* identity, constructing its reconstructor does not raise and leaves it
\* without a process id, and the Process Collector discards it and goes on
\* with the other files.
C18_TruncatedIdentityDiscarded ==
    (orch.pc = "collected"
        /\ \E i \in 1..Len(FilesOf(logs_path)) :
              TruncatedEarly(FilesOf(logs_path)[i].file)) =>
        /\ \A i \in 1..Len(FilesOf(logs_path)) :
              TruncatedEarly(FilesOf(logs_path)[i].file) =>
                 /\ Construct(FilesOf(logs_path)[i].file, config).exc = "None"
                 /\ Construct(FilesOf(logs_path)[i].file, config).r.process_id = NoInt
        /\ orch.exc = "None"
        /\ orch.results = ProcessesRun(Untruncated(logs_path), config).results

\* C17 as stated: an inert reconstructor (log file missing, empty, or with an
\* unsupported suffix) is constructed without error under the lazy and the
\* eager policy and has no process id; its next() signals exhaustion at once
\* and its reset() completes without raising.
C17_InertReconstructor ==
    /\ pc = "ready"
    /\ plog.process_id = NoInt
    /\ lastOp.op = "next" => lastOp.ret = "StopIteration"
    /\ lastOp.op = "reset" => lastOp.ret = "None"

\* the run of the same folder under the same configuration in which no
\* listener fails
Unbroken == RunToEnd(Start(logs_path, config, Instances("none")))

\* the result of o lacks the key of the listener whose run() raised and
\* nothing else of the result of ref
LacksOnly(o, ref) ==
    /\ finishing \notin DOMAIN o.behavior
    /\ DOMAIN o.behavior = (DOMAIN ref.behavior) \ {finishing}
    /\ \A k \in DOMAIN o.behavior : o.behavior[k] = ref.behavior[k]
    /\ o.processes = ref.processes

\* C19: when the run() of one listener raises, the run ends as it does
\* without the failure, and its result lacks only the key of that listener:
\* it holds "processes" and the results of the other three listeners, and the
\* stream of every process is in its reset state.
C19_FinishFailureIsolated ==
    (finishing # "none" /\ Ended(orch)) =>
        /\ orch.pc = Unbroken.pc
        /\ orch.pc = "returned" =>
              /\ LacksOnly(orch, Unbroken)
              /\ \A k \in 1..Len(orch.processes) : AtStart(orch.processes[k].calls)

\* a run over two processes that returned although the run() of Summary
\* raised, with the results of the other three listeners
C19_Witness ==
    /\ finishing = "summary"
    /\ orch.pc = "returned"
    /\ Len(orch.processes) = 2
    /\ DOMAIN orch.behavior = {"anomaly", "processtree", "enhanced"}
    /\ Len(orch.behavior["enhanced"]) >= 1
    /\ Len(orch.behavior["processtree"]) >= 1
    /\ <<"run", "summary">> \in Range(orch.logged)

\* the lists Summary keeps
SummaryLists ==
    {"keys", "read_keys", "write_keys", "delete_keys", "files", "read_files",
     "write_files", "delete_files", "mutexes", "started_services",
     "created_services"}

\* no string is in the list twice
NoDuplicate(list) == \A i, j \in 1..Len(list) : list[i] = list[j] => i = j

\* the list after a step keeps the members it had at their positions, so
\* that every member stays where its first insertion put it
Extends(before, after) ==
    /\ Len(before) <= Len(after)
    /\ SubSeq(after, 1, Len(before)) = before

\* C20: after any sequence of calls dispatched to Summary none of its lists
\* holds the same string twice, and each list orders its members by the
\* position of their first insertion.
C20_SummaryListsAreOrderedSets ==
    [][\A f \in SummaryLists :
          /\ NoDuplicate(listener'[f])
          /\ Extends(listener[f], listener'[f])]_vars

\* two keys recorded in the order of their first calls, after the call that
\* recorded the first was dispatched again
C20_Witness ==
    /\ Len(heard) = 3
    /\ heard[1].call = heard[3].call
    /\ heard[1].call # heard[2].call
    /\ Len(listener.keys) = 2
    /\ listener.keys[1] = ArgValue(heard[1].call, "FullName")
    /\ listener.keys[2] = ArgValue(heard[2].call, "FullName")
    /\ Len(listener.write_keys) = 2

\* the identity fields of the reconstructor r are those of the event ev
IdentityOf(r, ev) ==
    /\ r.process_id = ev.pid
    /\ r.parent_id = ev.ppid
    /\ r.process_name = ev.name
    /\ r.module_path = ev.path
    /\ r.first_seen = ev.time

\* C21 as stated: once a process-identity event has set the pid, parent id,
\* process name, module path and first-seen time of a reconstructor, no later
\* process-identity event changes them: they stay those of the first such
\* event of the log, also when a later event carries other values.
C21_FirstIdentityWins ==
    plog.process_id # NoInt => IdentityOf(plog, plog.events[1])

\* the sequence ids of recs are 0, 1, 2, ... in order
IdsFromZero(recs) ==
    \A k \in 1..Len(recs) : "id" \in DOMAIN recs[k] /\ recs[k].id = k - 1

\* C22: under either policy, once next() has signalled exhaustion (end of
\* the stream, sentinel or call-count ceiling) the stream is reset with no
\* call of reset(): the next() calls that follow return the full sequence
\* again from the first record, with sequence ids 0, 1, 2, ...
C22_ExhaustionResets ==
    \A i \in 1..(Len(passes) - 1) :
        (/\ passes[i + 1].start = "auto"
         /\ passes[i].modes = passes[i + 1].modes
         /\ Clean(passes[i]))
        => (/\ passes[i + 1].recs = passes[i].recs
            /\ IdsFromZero(passes[i + 1].recs))

\* a lazy reconstructor under a call-count ceiling read to exhaustion twice
\* with no reset() in between, the pass holding two records
C22_Witness ==
    /\ ~plog.ram_boost
    /\ plog.api_limit # 0
    /\ Len(passes) = 2
    /\ passes[2].start = "auto"
    /\ passes[1].modes = {FALSE} /\ passes[2].modes = {FALSE}
    /\ Clean(passes[1])
    /\ Len(passes[2].recs) >= 2
    /\ passes[2].recs[2].id = 1

\* what C23 asks of the step in which call was dispatched
ProcedureRecorded(call, before, after) ==
    (call.api = "LdrGetProcedureAddress" /\ call.status) =>
        /\ ArgValue(call, "FunctionAddress") \in DOMAIN after.procedures
        /\ after.procedures[ArgValue(call, "FunctionAddress")]
              = GetLoadedModule(before, ArgValue(call, "ModuleHandle"))
                    \o ":" \o ArgValue(call, "FunctionName")
        /\ Appended(before, after)
        /\ after.events[Len(after.events)].data["module"]
              = GetLoadedModule(before, ArgValue(call, "ModuleHandle"))

\* C23 as stated: a successful LdrGetProcedureAddress call with ModuleHandle
\* h, FunctionName f and FunctionAddress a dispatched to Enhanced records the
\* entry a -> "<module registered for h>:f" in the procedure-address table
\* and yields an event annotated with the owning module name.
C23_ProcedureRecorded ==
    [][\A h \in {heard'[Len(heard')]} :
          ProcedureRecorded(h.call, listener, listener')]_vars

\* the records of a full pass of next() on the construction c, or the
\* exception the construction raised
PassFrom(c) == IF c.exc = "None" THEN ReadAll(c.r) ELSE <<[raised |-> c.exc]>>

\* the reconstructor of the same log under the same limit and the other
\* policy
OtherPolicy(r) == Construct(r, Config(r.api_limit, ~r.ram_boost))

\* C24 as stated: for every log and every call-count limit, a full pass of
\* next() under the eager policy returns the same sequence of records (same
\* fields, order, repeat counts and sequence ids) as a full pass under the
\* lazy policy, on the first pass and on every pass after a reset.
C24_EagerEqualsLazy ==
    \A i \in 1..Len(passes) :
        passes[i].modes = {FALSE} => passes[i].recs = PassFrom(OtherPolicy(plog))

\* the two policies agree on every pass in which no next() raised
C24_CleanPasses ==
    \A i \in 1..Len(passes) :
        (passes[i].modes = {FALSE} /\ Clean(passes[i]))
            => passes[i].recs = PassFrom(OtherPolicy(plog))

\* the api-call events of the stream of r
CallEvents(r) == SelectSeq(r.events, LAMBDA ev : ev.type = "call")

\* the call occurrences the records recs stand for
OccurrencesOf(recs) == Occurrences(recs, 1, Len(recs))

\* C25: with no call-count limit, for any decoded stream of api-call events,
\* the sum over the records returned in one full pass of (repeat count + 1)
\* equals the sum over the raw decoded api-call events of (decoder repeat
\* count + 1).
C25_OccurrencesPreserved ==
    \A i \in 1..Len(passes) :
        (plog.api_limit = 0 /\ CallsOnly(plog) /\ Clean(passes[i]))
            => OccurrencesOf(passes[i].recs) = OccurrencesOf(CallEvents(plog))

\* an eager pass that folded a call of decoder repeat count 0 and one of
\* decoder repeat count 1 into one record standing for three occurrences
C25_Witness ==
    /\ plog.ram_boost
    /\ plog.api_limit = 0
    /\ plog.events = <<P0, cA, cA2>>
    /\ Completed(passes)
    /\ Len(passes[Len(passes)].recs) = 1
    /\ OccurrencesOf(passes[Len(passes)].recs) = 3

\* the number of nodes of process id pid in the nested list tree
RECURSIVE NodesOf(_, _)
NodesOf(tree, pid) ==
    IF tree = <<>> THEN 0
    ELSE (IF tree[1].pid = pid THEN 1 ELSE 0)
         + NodesOf(tree[1].children, pid)
         + NodesOf(Tail(tree), pid)

\* C26 as stated: after an orchestration run, every process in the
\* "processes" list of the result appears as exactly one node somewhere in
\* the "processtree" result, whatever the number of call records its stream
\* yielded.
C26_EveryProcessInTree ==
    (orch.pc = "returned" /\ failing = "none") =>
        \A k \in 1..Len(orch.processes) :
            NodesOf(orch.behavior["processtree"], orch.processes[k].process_id) = 1

\* every member of the list named part is a member of the list named whole
Within(part, whole) == Range(listener[part]) \subseteq Range(listener[whole])

\* C27 as stated: after any sequence of calls dispatched to Summary, every
\* name in the read-keys, write-keys or delete-keys list is also in the
\* any-keys list, and every name in the read-files, write-files or
\* delete-files list is also in the any-files list.
C27_TouchedImpliesAny ==
    /\ \A f \in {"read_keys", "write_keys", "delete_keys"} : Within(f, "keys")
    /\ \A f \in {"read_files", "write_files", "delete_files"} : Within(f, "files")

\* the records recs without the raw argument values
Printable(recs) ==
    [k \in 1..Len(recs) |->
        IF "arguments" \in DOMAIN recs[k]
        THEN [recs[k] EXCEPT !.arguments = NoRaw(@)]
        ELSE recs[k]]

\* C28: entering reporting mode changes only the presence of raw argument
\* values: for the same log and policy, the records read in a full pass
\* after begin_reporting() equal those read in a full pass before it in
\* length, order, API names, printable argument values, return values,
\* repeat counts and sequence ids.
C28_ReportingKeepsRecords ==
    \A i, j \in 1..Len(passes) :
        (/\ passes[i].modes = {FALSE} /\ passes[j].modes = {TRUE}
         /\ Clean(passes[i]) /\ Clean(passes[j]))
        => Printable(passes[j].recs) = Printable(passes[i].recs)

\* the nested list a run() that gave ret returned, read off the nodes procs
Returned(procs, ret) == TreeValue(procs, ret.tree)

\* C29 as stated: calling ProcessTree's run() a second time with no
\* event_apicall in between returns a tree equal to the one returned the
\* first time: no root and no child is listed twice.
C29_SecondFinishSameTree ==
    [][("tree" \in DOMAIN treeRet /\ treeRuns' = treeRuns + 1) =>
          /\ "tree" \in DOMAIN treeRet'
          /\ Returned(ptree'.processes, treeRet') = Returned(ptree.processes, treeRet)]_vars

\* whether the stream of r holds two adjacent anomaly events
AdjacentAnomalies(r) ==
    \E i \in 1..(Len(r.events) - 1) :
        r.events[i].type = "anomaly" /\ r.events[i + 1].type = "anomaly"

\* C30 as stated: for any decoded stream that interleaves api-call and
\* anomaly events, including two adjacent anomaly events, every next() call
\* either returns a record or signals exhaustion: the adjacent-duplicate
\* comparison never fails on an anomaly record, so no error escapes the read.
C30_AnomaliesNeverRaise ==
    lastOp.op = "next" => lastOp.ret \in {"return", "StopIteration"}

\* no error escapes a read of a stream without two adjacent anomaly events
C30_OtherStreams ==
    (lastOp.op = "next" /\ ~AdjacentAnomalies(plog))
        => lastOp.ret \in {"return", "StopIteration"}

\* the constructor is still running
Building == pc \in {"construct", "discover"}

\* C31 as stated: construction of a reconstructor terminates for every
\* non-empty log file with a supported suffix: the identity-discovery loop
\* ends when the decoder's single-step read reports clean end-of-stream
\* without ever having delivered a process-identity event.
C31_ConstructionTerminates == <>(~Building)

\* the step-by-step constructor ends as the constructor taken whole does
C31_StepsAgree ==
    (pc \notin {"idle", "construct", "discover"} /\ passes = <<>> /\ out = <<>>
     /\ lastOp.op = "init" /\ ~plog.reporting_mode)
        => \E c \in {Construct(plog, Config(plog.api_limit, plog.ram_boost))} :
              pc = (IF c.exc = "None" THEN "ready" ELSE c.exc)
====
